---------------------------- MODULE Spec2Model ----------------------------
(***************************************************************************)
(* The scoring engine of the Learning-Disability-Detector (ld_logic.py):   *)
(* the five evaluators and the bounded edit-distance comparator.           *)
(*                                                                         *)
(* A Python str is a sequence of one-character strings; None is the        *)
(* sequence <<"None">>, whose only element is no character.  A Python list *)
(* is a sequence of such values.                                           *)
(***************************************************************************)
EXTENDS Integers, Sequences, FiniteSets

VARIABLES
    \* one invocation of _edits_leq_one, statement by statement
    pc,         \* "entry", "loop", "done"
    arg_a,      \* the parameter a as passed
    arg_b,      \* the parameter b as passed
    a,          \* the local a after line 42
    b,          \* the local b after line 43
    i,
    j,
    diff,
    ret,        \* the returned value: "none" until the function returns
    ret_line,   \* the line of the return statement taken (0: none yet)
    \* one invocation of an evaluator
    fn,         \* "idle" or the evaluator called
    answers,    \* answers / recall_list / spell_list
    targets,    \* targets / target_list
    levels,     \* level_list
    result,     \* the returned dict
    \* evaluator invocations running side by side, one per thread
    frames,     \* per thread: the locals of its invocation
    lists,      \* per thread: the list objects its caller passed
    \* the web application
    users,      \* rows of the user table
    tests,      \* rows of the test table: the assessments
    remedials,  \* rows of the remedial table: the programs
    results,    \* rows of the result table, without their id and timestamp
    reset_requests, \* rows of the password_reset_request table
    session,    \* session['user_id'] of the browser, or no_user_id
    request,    \* the request handled last
    response    \* the response to it

vars == <<pc, arg_a, arg_b, a, b, i, j, diff, ret, ret_line,
          fn, answers, targets, levels, result, frames, lists,
          users, tests, remedials, results, reset_requests, session, request,
          response>>

edit_vars == <<pc, arg_a, arg_b, a, b, i, j, diff, ret, ret_line>>

eval_vars == <<fn, answers, targets, levels, result>>

thread_vars == <<frames, lists>>

app_vars ==
    <<users, tests, remedials, results, reset_requests, session, request, response>>

---------------------------------------------------------------------------
(* Bounds of the model.                                                    *)

\* longest string handed to _edits_leq_one
MaxStrLen == 3

\* longest answer and target list handed to evaluate_dyscalculia and
\* evaluate_memory
MaxItems == 3

\* longest spell, target and level list handed to evaluate_phonetics
MaxSpell == 2

\* longest answer list handed to a key-based evaluator (the keys hold 5)
MaxKeyed == 6

\* threads calling evaluators side by side
NumThreads == 2

\* the questions of a passage's pool that the draws of a comprehension page
\* are followed over (a page holds 5)
MaxDrawn == 6

---------------------------------------------------------------------------
(* Python values.                                                          *)

None == <<"None">>

Whitespace == {" "}

UpperCase ==
    <<"A", "B", "C", "D", "E", "F", "G", "H", "I", "J", "K", "L", "M",
      "N", "O", "P", "Q", "R", "S", "T", "U", "V", "W", "X", "Y", "Z">>

LowerCase ==
    <<"a", "b", "c", "d", "e", "f", "g", "h", "i", "j", "k", "l", "m",
      "n", "o", "p", "q", "r", "s", "t", "u", "v", "w", "x", "y", "z">>

\* x or ''
OrEmpty(x) == IF x = None THEN <<>> ELSE x

\* str.lower() on one character
lower_char(c) ==
    IF \E k \in 1..Len(UpperCase) : UpperCase[k] = c
    THEN LowerCase[CHOOSE k \in 1..Len(UpperCase) : UpperCase[k] = c]
    ELSE c

\* str.lower()
lower(s) == [k \in 1..Len(s) |-> lower_char(s[k])]

RECURSIVE lstrip(_)
lstrip(s) ==
    IF s # <<>> /\ Head(s) \in Whitespace THEN lstrip(Tail(s)) ELSE s

RECURSIVE rstrip(_)
rstrip(s) ==
    IF s # <<>> /\ s[Len(s)] \in Whitespace
    THEN rstrip(SubSeq(s, 1, Len(s) - 1))
    ELSE s

\* str.strip()
strip(s) == rstrip(lstrip(s))

\* normalize with the strip() forgotten
normalize_unstripped(x) == lower(OrEmpty(x))

\* (x or '').strip().lower()
normalize(x) == lower(strip(OrEmpty(x)))

\* all lists over S of at most n items
ListsUpTo(S, n) == UNION {[1..k -> S] : k \in 0..n}

Min(x, y) == IF x <= y THEN x ELSE y

---------------------------------------------------------------------------
(* _edits_leq_one, lines 39-76.                                            *)

\* loop_body advancing both pointers on every mismatch, whatever the lengths
loop_body_always_substitutes(sa, sb, s) ==
    IF sa[s.i + 1] = sb[s.j + 1]
    THEN [s EXCEPT !.i = @ + 1, !.j = @ + 1]
    ELSE IF s.diff = 1
    THEN [s EXCEPT !.ret = "False"]
    ELSE [s EXCEPT !.diff = @ + 1, !.i = @ + 1, !.j = @ + 1]

\* loop_body with the pointers of the deletion and insertion branches swapped
loop_body_swapped_pointers(sa, sb, s) ==
    IF sa[s.i + 1] = sb[s.j + 1]
    THEN [s EXCEPT !.i = @ + 1, !.j = @ + 1]
    ELSE IF s.diff = 1
    THEN [s EXCEPT !.ret = "False"]
    ELSE IF Len(sa) = Len(sb)
    THEN [s EXCEPT !.diff = @ + 1, !.i = @ + 1, !.j = @ + 1]
    ELSE IF Len(sa) > Len(sb)
    THEN [s EXCEPT !.diff = @ + 1, !.j = @ + 1]
    ELSE [s EXCEPT !.diff = @ + 1, !.i = @ + 1]

\* one iteration of the while loop of lines 54-71, on the locals
\* s = [i, j, diff, ret]; ret becomes FALSE at the return of line 60
loop_body(sa, sb, s) ==
    IF sa[s.i + 1] = sb[s.j + 1]
    THEN [s EXCEPT !.i = @ + 1, !.j = @ + 1]
    ELSE IF s.diff = 1
    THEN [s EXCEPT !.ret = "False"]
    ELSE IF Len(sa) = Len(sb)
    THEN [s EXCEPT !.diff = @ + 1, !.i = @ + 1, !.j = @ + 1]
    ELSE IF Len(sa) > Len(sb)
    THEN [s EXCEPT !.diff = @ + 1, !.i = @ + 1]
    ELSE [s EXCEPT !.diff = @ + 1, !.j = @ + 1]

\* the loop condition of line 54
loop_cond(sa, sb, s) == s.ret = "none" /\ s.i < Len(sa) /\ s.j < Len(sb)

\* trailing counting a trailing character whether or not one is left
trailing_always_counts(sa, sb, s) ==
    LET d == s.diff + 1
    IN  [s EXCEPT !.diff = d, !.ret = IF d <= 1 THEN "True" ELSE "False"]

\* lines 73-76
trailing(sa, sb, s) ==
    LET d == IF s.i < Len(sa) \/ s.j < Len(sb) THEN s.diff + 1 ELSE s.diff
    IN  [s EXCEPT !.diff = d, !.ret = IF d <= 1 THEN "True" ELSE "False"]

RECURSIVE while_loop(_, _, _)
while_loop(sa, sb, s) ==
    IF loop_cond(sa, sb, s) THEN while_loop(sa, sb, loop_body(sa, sb, s)) ELSE s

_edits_leq_one(x, y) ==
    LET sa == normalize(x)
        sb == normalize(y)
    IN  IF sa = sb THEN TRUE
        ELSE IF Len(sa) - Len(sb) > 1 \/ Len(sb) - Len(sa) > 1 THEN FALSE
        ELSE LET s == while_loop(sa, sb, [i |-> 0, j |-> 0, diff |-> 0, ret |-> "none"])
             IN  IF s.ret = "False" THEN FALSE
                 ELSE trailing(sa, sb, s).ret = "True"

\* the strings handed to the comparator
EditAlphabet == {"a", "b", "A", " "}

EditStrings == ListsUpTo(EditAlphabet, MaxStrLen)

\* the pairs of the documented examples
EditExamples ==
    { << <<"c","a","t">>, <<"c","a","t">> >>,
      << <<"c","a","t">>, <<"c","a","t","s">> >>,
      << <<"c","a","t">>, <<"d","o","g">> >>,
      << <<>>, <<"a">> >>,
      << <<"a","b">>, <<"b","a">> >>,
      << <<"k","a","t">>, <<"c","a","t">> >>,
      << <<" ","C","a","t"," ">>, <<"c","a","t">> >>,
      << None, <<"a">> >>,
      << None, None >> }

EditInit ==
    /\ pc = "entry"
    /\ \E p \in (EditStrings \X EditStrings) \cup EditExamples :
           arg_a = p[1] /\ arg_b = p[2]
    /\ a = <<>> /\ b = <<>>
    /\ i = 0 /\ j = 0 /\ diff = 0
    /\ ret = "none" /\ ret_line = 0

\* no invocation of the comparator under way
EditIdle ==
    /\ pc = "idle"
    /\ arg_a = <<>> /\ arg_b = <<>>
    /\ a = <<>> /\ b = <<>>
    /\ i = 0 /\ j = 0 /\ diff = 0
    /\ ret = "none" /\ ret_line = 0

\* lines 42-53
Entry ==
    /\ pc = "entry"
    /\ a' = normalize(arg_a)
    /\ b' = normalize(arg_b)
    /\ IF a' = b'
       THEN pc' = "done" /\ ret' = "True" /\ ret_line' = 46
       ELSE IF Len(a') - Len(b') > 1 \/ Len(b') - Len(a') > 1
       THEN pc' = "done" /\ ret' = "False" /\ ret_line' = 49
       ELSE pc' = "loop" /\ ret' = "none" /\ ret_line' = 0
    /\ i' = 0 /\ j' = 0 /\ diff' = 0
    /\ UNCHANGED <<arg_a, arg_b>>
    /\ UNCHANGED <<eval_vars, thread_vars, app_vars>>

locals == [i |-> i, j |-> j, diff |-> diff, ret |-> ret]

\* one iteration of the loop, lines 54-71
Iterate ==
    /\ pc = "loop"
    /\ loop_cond(a, b, locals)
    /\ LET s == loop_body(a, b, locals)
       IN  /\ i' = s.i /\ j' = s.j /\ diff' = s.diff /\ ret' = s.ret
           /\ pc' = IF s.ret = "False" THEN "done" ELSE "loop"
           /\ ret_line' = IF s.ret = "False" THEN 60 ELSE 0
    /\ UNCHANGED <<arg_a, arg_b, a, b>>
    /\ UNCHANGED <<eval_vars, thread_vars, app_vars>>

\* the loop's exit and lines 73-76
Finish ==
    /\ pc = "loop"
    /\ ~loop_cond(a, b, locals)
    /\ LET s == trailing(a, b, locals)
       IN  /\ diff' = s.diff /\ ret' = s.ret
    /\ pc' = "done"
    /\ ret_line' = 76
    /\ UNCHANGED <<arg_a, arg_b, a, b, i, j>>
    /\ UNCHANGED <<eval_vars, thread_vars, app_vars>>

---------------------------------------------------------------------------
(* evaluate_dyslexia, lines 1-10.                                          *)

dyslexia_key == << <<"b">>, <<"b">>, <<"a">>, <<"a">>, <<"b">> >>

dyslexia_flagged_message == "Possible signs of dyslexia"

dyslexia_clear_message == "No major signs detected."

\* dyslexia_match comparing as the other evaluators do
dyslexia_match_normalized(ans, c) == normalize(ans) = normalize(c)

\* a == c of line 4
dyslexia_match(ans, c) == ans = c

\* sum(1 for a,c in zip(answers, correct) if a==c), from position k on
RECURSIVE dyslexia_sum(_, _, _)
dyslexia_sum(ans, key, k) ==
    IF k > Len(ans) \/ k > Len(key) THEN 0
    ELSE (IF dyslexia_match(ans[k], key[k]) THEN 1 ELSE 0)
         + dyslexia_sum(ans, key, k + 1)

dyslexia_flag(score) == score < 3

evaluate_dyslexia(ans) ==
    LET score == dyslexia_sum(ans, dyslexia_key, 1)
    IN  [type |-> "Dyslexia",
         score |-> score,
         flag |-> dyslexia_flag(score),
         message |-> IF score < 3 THEN dyslexia_flagged_message
                     ELSE dyslexia_clear_message]

---------------------------------------------------------------------------
(* evaluate_dyscalculia, lines 12-37.                                      *)

\* lines 21-23, for the 1-based position k
dyscalculia_match(ans, tg, k) ==
    LET x == IF k - 1 < Len(ans) THEN ans[k] ELSE <<>>
        t == IF k - 1 < Len(tg) THEN tg[k] ELSE <<>>
    IN  normalize(x) = normalize(t)

\* dyscalculia_loop leaving the last target out
RECURSIVE dyscalculia_loop_skips_last(_, _, _, _)
dyscalculia_loop_skips_last(ans, tg, k, score) ==
    IF k >= Len(tg) THEN score
    ELSE dyscalculia_loop_skips_last(ans, tg, k + 1,
             IF dyscalculia_match(ans, tg, k) THEN score + 1 ELSE score)

\* the for loop of lines 20-24, from position k on with the score so far
RECURSIVE dyscalculia_loop(_, _, _, _)
dyscalculia_loop(ans, tg, k, score) ==
    IF k > Len(tg) THEN score
    ELSE dyscalculia_loop(ans, tg, k + 1,
             IF dyscalculia_match(ans, tg, k) THEN score + 1 ELSE score)

\* dyscalculia_flag with the threshold of evaluate_memory
dyscalculia_flag_proportional(score, total) == score < total \div 2

dyscalculia_flag(score, total) == score < 3

evaluate_dyscalculia(ans, tg) ==
    LET total == Len(tg)
        score == dyscalculia_loop(ans, tg, 1, 0)
        flag == dyscalculia_flag(score, total)
    IN  [type |-> "Dyscalculia",
         score |-> score,
         flag |-> flag,
         message |-> IF flag
                     THEN "Consider practicing phonics and spelling patterns"
                     ELSE "Spelling patterns appear within typical range."]

---------------------------------------------------------------------------
(* evaluate_memory, lines 79-106.                                          *)

\* lines 87-89, for the 1-based position k
memory_match(recall, tg, k) ==
    LET target == IF k - 1 < Len(tg) THEN tg[k] ELSE <<>>
        ans == IF k - 1 < Len(recall) THEN recall[k] ELSE <<>>
    IN  _edits_leq_one(ans, target)

\* memory_loop leaving the last target out
RECURSIVE memory_loop_stops_early(_, _, _, _)
memory_loop_stops_early(recall, tg, k, correct) ==
    IF k >= Len(tg) THEN correct
    ELSE memory_loop_stops_early(recall, tg, k + 1,
             IF memory_match(recall, tg, k) THEN correct + 1 ELSE correct)

\* the for loop of lines 86-90
RECURSIVE memory_loop(_, _, _, _)
memory_loop(recall, tg, k, correct) ==
    IF k > Len(tg) THEN correct
    ELSE memory_loop(recall, tg, k + 1,
             IF memory_match(recall, tg, k) THEN correct + 1 ELSE correct)

\* memory_flag with <= for <
memory_flag_inclusive(correct, total) ==
    LET threshold == IF total > 0 THEN total \div 2 ELSE 0
    IN  correct <= threshold

\* lines 93-94
memory_flag(correct, total) ==
    LET threshold == IF total > 0 THEN total \div 2 ELSE 0
    IN  correct < threshold

evaluate_memory(recall, tg) ==
    LET total == Len(tg)
        correct == memory_loop(recall, tg, 1, 0)
        flag == memory_flag(correct, total)
    IN  [type |-> "Working Memory",
         score |-> correct,
         total |-> total,
         flag |-> flag,
         message |-> IF flag THEN "Possible working memory challenges"
                     ELSE "Working memory within typical range."]

---------------------------------------------------------------------------
(* evaluate_phonetics, lines 109-166.                                      *)

Digits == <<"0", "1", "2", "3", "4", "5", "6", "7", "8", "9">>

is_digit(c) == \E k \in 1..Len(Digits) : Digits[k] = c

digit_value(c) == (CHOOSE k \in 1..Len(Digits) : Digits[k] = c) - 1

\* the value of a string of decimal digits, most significant first
RECURSIVE digits_value(_, _)
digits_value(s, acc) ==
    IF s = <<>> THEN acc
    ELSE digits_value(Tail(s), 10 * acc + digit_value(Head(s)))

\* int(x) of line 128: [ok |-> TRUE, val |-> n], or ok = FALSE where Python
\* raises TypeError (None) or ValueError (no optionally signed, whitespace
\* padded, decimal integer literal)
int(x) ==
    IF x = None THEN [ok |-> FALSE, val |-> 0]
    ELSE LET s == strip(x)
             signed == s # <<>> /\ Head(s) \in {"+", "-"}
             body == IF signed THEN Tail(s) ELSE s
             n == digits_value(body, 0)
         IN  IF body = <<>> \/ \E k \in 1..Len(body) : ~is_digit(body[k])
             THEN [ok |-> FALSE, val |-> 0]
             ELSE [ok |-> TRUE,
                   val |-> IF signed /\ Head(s) = "-" THEN 0 - n ELSE n]

\* phonetics_level clamping a level above 3 to tier 3
phonetics_level_clamped(lv, k) ==
    LET parsed == IF k - 1 < Len(lv) THEN int(lv[k]) ELSE [ok |-> TRUE, val |-> 1]
        lvl == IF parsed.ok THEN parsed.val ELSE 1
    IN  IF lvl > 3 THEN 3 ELSE IF lvl < 1 THEN 1 ELSE lvl

\* lines 127-132, for the 1-based position k
phonetics_level(lv, k) ==
    LET parsed == IF k - 1 < Len(lv) THEN int(lv[k]) ELSE [ok |-> TRUE, val |-> 1]
        lvl == IF parsed.ok THEN parsed.val ELSE 1
    IN  IF lvl \notin {1, 2, 3} THEN 1 ELSE lvl

\* phonetics_match with the student's spelling not lowercased
phonetics_match_case_sensitive(spell, tg, k) ==
    LET student == strip(OrEmpty(spell[k]))
        target == normalize(tg[k])
    IN  student = target

\* lines 136-138, for the 1-based position k
phonetics_match(spell, tg, k) ==
    LET student == normalize(spell[k])
        target == normalize(tg[k])
    IN  student = target

\* line 119
phonetics_n(spell, tg) == Min(Len(tg), Len(spell))

\* phonetics_loop with a tier's total counted only for a wrong spelling
RECURSIVE phonetics_loop_totals_misses(_, _, _, _, _, _)
phonetics_loop_totals_misses(spell, tg, lv, n, k, c) ==
    IF k > n THEN c
    ELSE LET lvl == phonetics_level(lv, k)
             hit == phonetics_match(spell, tg, k)
             t == IF hit THEN c.total ELSE [c.total EXCEPT ![lvl] = @ + 1]
             r == IF hit THEN [c.correct EXCEPT ![lvl] = @ + 1] ELSE c.correct
         IN  phonetics_loop_totals_misses(spell, tg, lv, n, k + 1,
                                          [total |-> t, correct |-> r])

\* the for loop of lines 125-139 on c = [total, correct], the two dicts
RECURSIVE phonetics_loop(_, _, _, _, _, _)
phonetics_loop(spell, tg, lv, n, k, c) ==
    IF k > n THEN c
    ELSE LET lvl == phonetics_level(lv, k)
             t == [c.total EXCEPT ![lvl] = @ + 1]
             r == IF phonetics_match(spell, tg, k)
                  THEN [c.correct EXCEPT ![lvl] = @ + 1]
                  ELSE c.correct
         IN  phonetics_loop(spell, tg, lv, n, k + 1, [total |-> t, correct |-> r])

\* lines 152-153
phonetics_flag(score, total) ==
    LET threshold == IF total > 0 THEN total \div 2 ELSE 0
    IN  score < threshold

evaluate_phonetics(spell, tg, lv) ==
    LET n == phonetics_n(spell, tg)
        zero == [l \in {1, 2, 3} |-> 0]
        c == phonetics_loop(spell, tg, lv, n, 1, [total |-> zero, correct |-> zero])
        score == c.correct[1] + c.correct[2] + c.correct[3]
    IN  [type |-> "Phonetics",
         score |-> score,
         total |-> n,
         flag |-> phonetics_flag(score, n),
         message |-> <<"Phonetic spelling overview - Level 1: ",
                       c.correct[1], "/", c.total[1],
                       ", Level 2: ", c.correct[2], "/", c.total[2],
                       ", Level 3: ", c.correct[3], "/", c.total[3],
                       ". This activity explores how sounds connect to English spelling patterns.">>,
         level_breakdown |->
             [level1 |-> [correct |-> c.correct[1], total |-> c.total[1]],
              level2 |-> [correct |-> c.correct[2], total |-> c.total[2]],
              level3 |-> [correct |-> c.correct[3], total |-> c.total[3]]]]

---------------------------------------------------------------------------
(* evaluate_phonetics_legacy_mcq, lines 169-187.                           *)

correct_key == << <<"c">>, <<"b">>, <<"a">>, <<"a">>, <<"b">> >>

\* legacy_match with the strip() forgotten
legacy_match_unstripped(ans, c) == lower(OrEmpty(ans)) = c

\* (a or '').strip().lower() == c of line 174
legacy_match(ans, c) == normalize(ans) = c

RECURSIVE legacy_sum(_, _, _)
legacy_sum(ans, key, k) ==
    IF k > Len(ans) \/ k > Len(key) THEN 0
    ELSE (IF legacy_match(ans[k], key[k]) THEN 1 ELSE 0)
         + legacy_sum(ans, key, k + 1)

legacy_flag(score) == score < 3

legacy_message ==
    "Legacy phonetic items scored. For the new phonetic spelling, responses are typed words with increasing complexity across three levels."

evaluate_phonetics_legacy_mcq(ans) ==
    LET score == legacy_sum(ans, correct_key, 1)
    IN  [type |-> "Phonetics",
         score |-> score,
         total |-> Len(correct_key),
         flag |-> legacy_flag(score),
         message |-> legacy_message]

---------------------------------------------------------------------------
(* Evaluator invocations on several threads, one loop iteration at a time. *)
(* Each invocation has its own frame of locals; the lists it is passed are *)
(* the caller's objects.                                                   *)

Threads == 1..NumThreads

no_result == [type |-> "none"]

zero_tiers == [total |-> [l \in {1, 2, 3} |-> 0], correct |-> [l \in {1, 2, 3} |-> 0]]

no_call == [fn |-> "none", answers |-> <<>>, targets |-> <<>>, levels |-> <<>>]

\* given: the call as the caller made it; the rest: the list objects now
no_lists == [given |-> no_call, answers |-> <<>>, targets |-> <<>>, levels |-> <<>>]

idle_frame ==
    [pc |-> "idle", fn |-> "none", k |-> 0, n |-> 0, score |-> 0,
     tiers |-> zero_tiers, result |-> no_result, returned |-> FALSE]

ThreadsIdle ==
    /\ frames = [t \in Threads |-> idle_frame]
    /\ lists = [t \in Threads |-> no_lists]

\* the calls the threads make
ThreadCalls ==
    { [fn |-> "evaluate_dyslexia",
       answers |-> << <<"b">>, <<" ", "B">>, <<"a">> >>,
       targets |-> <<>>, levels |-> <<>>],
      [fn |-> "evaluate_dyscalculia",
       answers |-> << <<"a">>, <<" ", "a", "B">> >>,
       targets |-> << <<"a">>, <<"A", "b", " ">>, <<"a">> >>, levels |-> <<>>],
      [fn |-> "evaluate_memory",
       answers |-> << <<"b", "a">>, <<"a">> >>,
       targets |-> << <<"a">>, <<"A", "b", " ">> >>, levels |-> <<>>],
      [fn |-> "evaluate_memory",
       answers |-> << <<>> >>,
       targets |-> << <<"A", "b", " ">>, <<"A", "b", " ">> >>, levels |-> <<>>],
      [fn |-> "evaluate_phonetics",
       answers |-> << <<" ", "A">>, <<"a">>, <<"a">> >>,
       targets |-> << <<"a">>, <<"B", " ">> >>,
       levels |-> << <<"2">> >>],
      [fn |-> "evaluate_phonetics_legacy_mcq",
       answers |-> << <<"c">>, <<" ", "B">> >>,
       targets |-> <<>>, levels |-> <<>>] }

\* the number of loop iterations of a call: the zip of line 4 and 174, the
\* range(total) of lines 20 and 86, the range(n) of line 125
call_positions(c) ==
    CASE c.fn = "evaluate_dyslexia" -> Min(Len(c.answers), Len(dyslexia_key))
      [] c.fn = "evaluate_phonetics_legacy_mcq" -> Min(Len(c.answers), Len(correct_key))
      [] c.fn = "evaluate_dyscalculia" -> Len(c.targets)
      [] c.fn = "evaluate_memory" -> Len(c.targets)
      [] c.fn = "evaluate_phonetics" -> phonetics_n(c.answers, c.targets)

\* call_frame with the score left as the thread's previous call left it
call_frame_keeps_score(prev, c) ==
    [pc |-> "loop", fn |-> c.fn, k |-> 1, n |-> call_positions(c),
     score |-> prev.score, tiers |-> zero_tiers, result |-> no_result,
     returned |-> prev.returned]

\* the locals at function entry (score = 0 of line 19, correct = 0 of line
\* 84, the dicts of lines 122-123); prev is the thread's dead frame
call_frame(prev, c) ==
    [pc |-> "loop", fn |-> c.fn, k |-> 1, n |-> call_positions(c),
     score |-> 0, tiers |-> zero_tiers, result |-> no_result,
     returned |-> prev.returned]

\* the frame after one loop iteration, from the frame f and the lists l
iteration(f, l) ==
    LET k == f.k
    IN  CASE f.fn = "evaluate_dyslexia" ->
                 [f EXCEPT !.k = k + 1,
                           !.score = IF dyslexia_match(l.answers[k], dyslexia_key[k])
                                     THEN @ + 1 ELSE @]
          [] f.fn = "evaluate_phonetics_legacy_mcq" ->
                 [f EXCEPT !.k = k + 1,
                           !.score = IF legacy_match(l.answers[k], correct_key[k])
                                     THEN @ + 1 ELSE @]
          [] f.fn = "evaluate_dyscalculia" ->
                 [f EXCEPT !.k = k + 1,
                           !.score = IF dyscalculia_match(l.answers, l.targets, k)
                                     THEN @ + 1 ELSE @]
          [] f.fn = "evaluate_memory" ->
                 [f EXCEPT !.k = k + 1,
                           !.score = IF memory_match(l.answers, l.targets, k)
                                     THEN @ + 1 ELSE @]
          [] f.fn = "evaluate_phonetics" ->
                 LET lvl == phonetics_level(l.levels, k)
                 IN  [f EXCEPT !.k = k + 1,
                               !.tiers.total[lvl] = @ + 1,
                               !.tiers.correct[lvl] =
                                   IF phonetics_match(l.answers, l.targets, k)
                                   THEN @ + 1 ELSE @]

\* thread_iteration with the score kept in one place for all threads: the
\* first thread's
thread_iteration_shared_score(fs, ls, t) ==
    iteration([fs[t] EXCEPT !.score = fs[1].score], ls[t])

\* the iteration of thread t: it reads and writes its own frame only
thread_iteration(fs, ls, t) == iteration(fs[t], ls[t])

\* the record built after the loop
thread_result(f) ==
    CASE f.fn = "evaluate_dyslexia" ->
             [type |-> "Dyslexia",
              score |-> f.score,
              flag |-> dyslexia_flag(f.score),
              message |-> IF f.score < 3 THEN dyslexia_flagged_message
                          ELSE dyslexia_clear_message]
      [] f.fn = "evaluate_phonetics_legacy_mcq" ->
             [type |-> "Phonetics",
              score |-> f.score,
              total |-> Len(correct_key),
              flag |-> legacy_flag(f.score),
              message |-> legacy_message]
      [] f.fn = "evaluate_dyscalculia" ->
             [type |-> "Dyscalculia",
              score |-> f.score,
              flag |-> dyscalculia_flag(f.score, f.n),
              message |-> IF dyscalculia_flag(f.score, f.n)
                          THEN "Consider practicing phonics and spelling patterns"
                          ELSE "Spelling patterns appear within typical range."]
      [] f.fn = "evaluate_memory" ->
             [type |-> "Working Memory",
              score |-> f.score,
              total |-> f.n,
              flag |-> memory_flag(f.score, f.n),
              message |-> IF memory_flag(f.score, f.n)
                          THEN "Possible working memory challenges"
                          ELSE "Working memory within typical range."]
      [] f.fn = "evaluate_phonetics" ->
             LET c == f.tiers
                 score == c.correct[1] + c.correct[2] + c.correct[3]
             IN  [type |-> "Phonetics",
                  score |-> score,
                  total |-> f.n,
                  flag |-> phonetics_flag(score, f.n),
                  message |-> <<"Phonetic spelling overview - Level 1: ",
                                c.correct[1], "/", c.total[1],
                                ", Level 2: ", c.correct[2], "/", c.total[2],
                                ", Level 3: ", c.correct[3], "/", c.total[3],
                                ". This activity explores how sounds connect to English spelling patterns.">>,
                  level_breakdown |->
                      [level1 |-> [correct |-> c.correct[1], total |-> c.total[1]],
                       level2 |-> [correct |-> c.correct[2], total |-> c.total[2]],
                       level3 |-> [correct |-> c.correct[3], total |-> c.total[3]]]]

\* thread t calls an evaluator
ThreadCall(t) ==
    /\ frames[t].pc = "idle"
    /\ \E c \in ThreadCalls :
           /\ frames' = [frames EXCEPT ![t] = call_frame(frames[t], c)]
           /\ lists' = [lists EXCEPT ![t] =
                  [given |-> c, answers |-> c.answers,
                   targets |-> c.targets, levels |-> c.levels]]
    /\ UNCHANGED <<edit_vars, eval_vars, app_vars>>

\* thread t runs one iteration of its loop
ThreadIterate(t) ==
    /\ frames[t].pc = "loop"
    /\ frames[t].k <= frames[t].n
    /\ frames' = [frames EXCEPT ![t] = thread_iteration(frames, lists, t)]
    /\ UNCHANGED <<lists, edit_vars, eval_vars, app_vars>>

\* thread t leaves its loop and returns the record
ThreadFinish(t) ==
    /\ frames[t].pc = "loop"
    /\ frames[t].k > frames[t].n
    /\ frames' = [frames EXCEPT ![t] =
           [@ EXCEPT !.pc = "done", !.result = thread_result(frames[t])]]
    /\ UNCHANGED <<lists, edit_vars, eval_vars, app_vars>>

\* the caller of thread t takes the record; the frame's locals are dead
ThreadReturn(t) ==
    /\ frames[t].pc = "done"
    /\ frames' = [frames EXCEPT ![t] =
           [@ EXCEPT !.pc = "idle", !.result = no_result, !.returned = TRUE]]
    /\ UNCHANGED <<lists, edit_vars, eval_vars, app_vars>>

NextThreads ==
    \E t \in Threads :
        \/ ThreadCall(t)
        \/ ThreadIterate(t)
        \/ ThreadFinish(t)
        \/ ThreadReturn(t)

---------------------------------------------------------------------------
(* The web application, src/app.py: the database, the session and the      *)
(* forms.  The database is the default SQLite one: an INTEGER PRIMARY KEY  *)
(* is one more than the largest id in the table, foreign keys are not      *)
(* enforced by the database, and the unique constraint on test.name is.    *)

\* highest row id of the test and the remedial table the model lets the
\* database hand out
MaxId == 2

\* session.get('user_id') of a session that has none
no_user_id == 0

\* the result of a query that finds no row
no_row == [id |-> 0]

FormFields ==
    {"name", "email", "password", "age", "gender", "course", "year",
     "description", "test_id", "difficulty_level",
     "learning_style", "diagnosed_difficulties", "age_group",
     "runtime", "q1", "q2", "q3", "q4", "q5",
     "answer", "target", "recall", "spell", "level",
     "role", "confirm_password"}

\* the fields read with request.form.getlist: the list of the values sent
ListFields == {"answer", "target", "recall", "spell", "level"}

\* a submitted form: the fields of the record f, every other field missing
\* (None, and no value in the list of a field read with getlist)
Form(f) ==
    [k \in FormFields |->
        IF k \in DOMAIN f THEN f[k]
        ELSE IF k \in ListFields THEN <<>>
        ELSE None]

\* request.form.get(key, default)
form_get(form, key, default) == IF form[key] = None THEN default ELSE form[key]

no_form == Form([name |-> None])

\* url_for() endpoints and rendered templates
\* test_data is what a rendered page shows of the questions it was given
no_response ==
    [status |-> 0, redirect |-> "none", template |-> "none", flash |-> "none",
     test_data |-> {}]

redirect(endpoint, message) ==
    [status |-> 302, redirect |-> endpoint, template |-> "none", flash |-> message,
     test_data |-> {}]

render_template(name, message) ==
    [status |-> 200, redirect |-> "none", template |-> name, flash |-> message,
     test_data |-> {}]

\* db.session.get(Model, id) and Model.query.get(id)
get(rows, id) ==
    IF \E r \in rows : r.id = id THEN CHOOSE r \in rows : r.id = id ELSE no_row

\* the id SQLite gives the next row of a table
RECURSIVE max_id(_)
max_id(rows) ==
    IF rows = {} THEN 0
    ELSE LET r == CHOOSE x \in rows : TRUE
             m == max_id(rows \ {r})
         IN  IF r.id > m THEN r.id ELSE m

next_id(rows) == max_id(rows) + 1

AppStarted ==
    /\ users = {}
    /\ tests = {}
    /\ remedials = {}
    /\ results = {}
    /\ reset_requests = {}
    /\ session = no_user_id
    /\ request = [route |-> "none", form |-> no_form, id |-> 0]
    /\ response = no_response

\* string literals of the code
admin_email ==
    <<"a", "d", "m", "i", "n", "@", "l", "d", "d", "e", "t", "e", "c", "t", "o", "r", ".", "c", "o", "m">>

admin_password ==
    <<"a", "d", "m", "i", "n", "1", "2", "3">>

counselor_email ==
    <<"c", "o", "u", "n", "s", "e", "l", "o", "r", "@", "l", "d", "d", "e", "t", "e", "c", "t", "o", "r", ".", "c", "o", "m">>

counselor_password ==
    <<"c", "o", "u", "n", "s", "e", "l", "o", "r", "1", "2", "3">>

easy ==
    <<"e", "a", "s", "y">>

medium ==
    <<"m", "e", "d", "i", "u", "m">>

hard ==
    <<"h", "a", "r", "d">>

Administrator ==
    <<"A", "d", "m", "i", "n", "i", "s", "t", "r", "a", "t", "o", "r">>

Counselor ==
    <<"C", "o", "u", "n", "s", "e", "l", "o", "r">>

\* not all([...]) of lines 363, 1299 and 1346: some string is empty
some_empty(strings) == \E s \in strings : s = <<>>

\* the outcome of a view: the database and session it leaves, its response
outcome(st, resp) == [st |-> st, response |-> resp]

\* signup, lines 350-405
signup(st, req) ==
    LET name == strip(form_get(req.form, "name", <<>>))
        email == lower(strip(form_get(req.form, "email", <<>>)))
        password == form_get(req.form, "password", <<>>)
        age_str == strip(form_get(req.form, "age", <<>>))
        gender == strip(form_get(req.form, "gender", <<>>))
        course == strip(form_get(req.form, "course", <<>>))
        year == strip(form_get(req.form, "year", <<>>))
        age == int(age_str)
        user == [id |-> next_id(st.users), name |-> name, email |-> email,
                 role |-> "student", age |-> age.val, gender |-> gender,
                 course |-> course, year |-> year, password |-> password,
                 completed_get_to_know_you |-> FALSE,
                 g2k_learning_style |-> None,
                 g2k_diagnosed_difficulties |-> None,
                 g2k_age_group |-> None]
    IN  IF some_empty({name, email, password, age_str, gender, course, year})
        THEN outcome(st, redirect("signup", "All fields are required."))
        ELSE IF Len(password) < 6
        THEN outcome(st, redirect("signup", "Password must be at least 6 characters long."))
        ELSE IF ~age.ok
        THEN outcome(st, redirect("signup", "Please enter a valid age."))
        ELSE IF age.val < 1 \/ age.val > 120
        THEN outcome(st, redirect("signup", "Please enter a valid age between 1 and 120."))
        ELSE IF \E u \in st.users : u.email = email
        THEN outcome(st, redirect("signup", "Email already registered."))
        ELSE outcome([st EXCEPT !.users = @ \cup {user}],
                     redirect("login", "Account created! Please log in."))

\* the hardcoded branches of login, lines 421-438 and 441-460: the account
\* is created when no user has the email, and the session is the id of the
\* user that has it
hardcoded_login(st, email, password, name, role, endpoint, message) ==
    LET found == \E u \in st.users : u.email = email
        user == IF found THEN CHOOSE u \in st.users : u.email = email
                ELSE [id |-> next_id(st.users), name |-> name, email |-> email,
                      role |-> role, age |-> IF role = "admin" THEN 30 ELSE 28,
                      gender |-> <<"O", "t", "h", "e", "r">>,
                      course |-> <<"N", "/", "A">>, year |-> <<"N", "/", "A">>,
                      password |-> password,
                      completed_get_to_know_you |-> FALSE,
                      g2k_learning_style |-> None,
                      g2k_diagnosed_difficulties |-> None,
                      g2k_age_group |-> None]
    IN  outcome([st EXCEPT !.users = @ \cup {user}, !.session = user.id],
                redirect(endpoint, message))

\* login (POST), lines 407-474
login(st, req) ==
    LET email == lower(strip(form_get(req.form, "email", <<>>)))
        password == form_get(req.form, "password", <<>>)
    IN  IF email = <<>> \/ password = <<>>
        THEN outcome(st, redirect("login", "Email and password are required."))
        ELSE IF email = admin_email /\ password = admin_password
        THEN hardcoded_login(st, email, password, Administrator, "admin",
                             "admin_dashboard", "Logged in successfully as Admin!")
        ELSE IF email = counselor_email /\ password = counselor_password
        THEN hardcoded_login(st, email, password, Counselor, "counselor",
                             "counselor_dashboard", "Logged in successfully as Counselor!")
        ELSE IF \E u \in st.users : u.email = email /\ u.password = password
        THEN LET user == CHOOSE u \in st.users : u.email = email
             IN  outcome([st EXCEPT !.session = user.id],
                         redirect("index", "Logged in successfully!"))
        ELSE outcome(st, render_template("login.html", "Invalid email or password."))

\* logout, lines 476-480
logout(st, req) ==
    outcome([st EXCEPT !.session = no_user_id], redirect("landing", "Logged out."))

\* counselor_required with the role of the session's user not looked at
counselor_required_any_role(st, req, view) ==
    IF st.session = no_user_id
    THEN outcome(st, redirect("login", "Please log in to access this page."))
    ELSE view

\* counselor_required, lines 160-175; view is the outcome of the wrapped
\* view, f(*args, **kwargs) of line 174
counselor_required(st, req, view) ==
    IF st.session = no_user_id
    THEN outcome(st, redirect("login", "Please log in to access this page."))
    ELSE LET user == get(st.users, st.session)
         IN  IF user.id = no_row.id \/ user.role \notin {"counselor", "admin", "superuser"}
             THEN outcome(st, redirect("landing",
                          "Access denied. Counselor or Admin privileges required."))
             ELSE view

\* counselor_dashboard, lines 1243-1265
counselor_dashboard(st, req) ==
    outcome(st, render_template("counselor_dashboard.html", "none"))

\* add_program with the looked-up test not checked
add_program_any_test(st, req) ==
    LET name == strip(form_get(req.form, "name", <<>>))
        description == strip(form_get(req.form, "description", <<>>))
        test_id == strip(form_get(req.form, "test_id", <<>>))
        id == int(test_id)
        remedial == [id |-> next_id(st.remedials), test_id |-> id.val,
                     name |-> name, description |-> description]
    IN  IF some_empty({name, description, test_id})
        THEN outcome(st, redirect("counselor_dashboard", "All fields are required."))
        ELSE IF ~id.ok
        THEN outcome(st, redirect("counselor_dashboard",
                                  "An error occurred adding the program."))
        ELSE outcome([st EXCEPT !.remedials = @ \cup {remedial}],
                     redirect("counselor_dashboard", "Program added successfully!"))

\* add_program, lines 1293-1322; int() raising ValueError is the except
\* branch of line 1317
add_program(st, req) ==
    LET name == strip(form_get(req.form, "name", <<>>))
        description == strip(form_get(req.form, "description", <<>>))
        test_id == strip(form_get(req.form, "test_id", <<>>))
        id == int(test_id)
        remedial == [id |-> next_id(st.remedials), test_id |-> id.val,
                     name |-> name, description |-> description]
    IN  IF some_empty({name, description, test_id})
        THEN outcome(st, redirect("counselor_dashboard", "All fields are required."))
        ELSE IF ~id.ok
        THEN outcome(st, redirect("counselor_dashboard",
                                  "An error occurred adding the program."))
        ELSE IF get(st.tests, id.val).id = no_row.id
        THEN outcome(st, redirect("counselor_dashboard", "Invalid test selected."))
        ELSE outcome([st EXCEPT !.remedials = @ \cup {remedial}],
                     redirect("counselor_dashboard", "Program added successfully!"))

\* delete_program that deletes the programs of the same assessment with it
delete_program_with_siblings(st, req) ==
    LET remedial == get(st.remedials, req.id)
    IN  IF remedial.id = no_row.id
        THEN outcome(st, redirect("counselor_dashboard",
                                  "An error occurred deleting the program."))
        ELSE outcome([st EXCEPT !.remedials =
                          {r \in @ : r.test_id # remedial.test_id}],
                     redirect("counselor_dashboard", "Program deleted successfully!"))

\* delete_program, lines 1326-1337; the NotFound of get_or_404 is caught by
\* the except branch of line 1332
delete_program(st, req) ==
    LET remedial == get(st.remedials, req.id)
    IN  IF remedial.id = no_row.id
        THEN outcome(st, redirect("counselor_dashboard",
                                  "An error occurred deleting the program."))
        ELSE outcome([st EXCEPT !.remedials = @ \ {remedial}],
                     redirect("counselor_dashboard", "Program deleted successfully!"))

\* add_assessment with the difficulty stored as submitted
add_assessment_any_difficulty(st, req) ==
    LET name == strip(form_get(req.form, "name", <<>>))
        description == strip(form_get(req.form, "description", <<>>))
        difficulty_level == strip(form_get(req.form, "difficulty_level", medium))
        test == [id |-> next_id(st.tests), name |-> name,
                 description |-> description, difficulty_level |-> difficulty_level]
    IN  IF some_empty({name, description})
        THEN outcome(st, redirect("counselor_dashboard",
                                  "Name and description are required."))
        ELSE IF \E t \in st.tests : t.name = name
        THEN outcome(st, redirect("counselor_dashboard",
                                  "An error occurred adding the assessment."))
        ELSE outcome([st EXCEPT !.tests = @ \cup {test}],
                     redirect("counselor_dashboard", "Assessment added successfully!"))

\* add_assessment, lines 1341-1367; the IntegrityError of a name that a
\* test already has (unique=True) is the except branch of line 1362
add_assessment(st, req) ==
    LET name == strip(form_get(req.form, "name", <<>>))
        description == strip(form_get(req.form, "description", <<>>))
        submitted == strip(form_get(req.form, "difficulty_level", medium))
        difficulty_level == IF submitted \notin {easy, medium, hard}
                            THEN medium ELSE submitted
        test == [id |-> next_id(st.tests), name |-> name,
                 description |-> description, difficulty_level |-> difficulty_level]
    IN  IF some_empty({name, description})
        THEN outcome(st, redirect("counselor_dashboard",
                                  "Name and description are required."))
        ELSE IF \E t \in st.tests : t.name = name
        THEN outcome(st, redirect("counselor_dashboard",
                                  "An error occurred adding the assessment."))
        ELSE outcome([st EXCEPT !.tests = @ \cup {test}],
                     redirect("counselor_dashboard", "Assessment added successfully!"))

\* delete_assessment looking for a remedial of that id instead of one of
\* that test_id
delete_assessment_checks_program_id(st, req) ==
    LET test == get(st.tests, req.id)
    IN  IF test.id = no_row.id
        THEN outcome(st, redirect("counselor_dashboard",
                                  "An error occurred deleting the assessment."))
        ELSE IF \E r \in st.remedials : r.id = req.id
        THEN outcome(st, redirect("counselor_dashboard",
                 "Cannot delete assessment with associated programs. Delete programs first."))
        ELSE outcome([st EXCEPT !.tests = @ \ {test}],
                     redirect("counselor_dashboard", "Assessment deleted successfully!"))

\* delete_assessment with the check for related remedials left out
delete_assessment_unchecked(st, req) ==
    LET test == get(st.tests, req.id)
    IN  IF test.id = no_row.id
        THEN outcome(st, redirect("counselor_dashboard",
                                  "An error occurred deleting the assessment."))
        ELSE outcome([st EXCEPT !.tests = @ \ {test}],
                     redirect("counselor_dashboard", "Assessment deleted successfully!"))

\* delete_assessment, lines 1371-1387; the NotFound of get_or_404 is caught
\* by the except branch of line 1382
delete_assessment(st, req) ==
    LET test == get(st.tests, req.id)
    IN  IF test.id = no_row.id
        THEN outcome(st, redirect("counselor_dashboard",
                                  "An error occurred deleting the assessment."))
        ELSE IF \E r \in st.remedials : r.test_id = req.id
        THEN outcome(st, redirect("counselor_dashboard",
                 "Cannot delete assessment with associated programs. Delete programs first."))
        ELSE outcome([st EXCEPT !.tests = @ \ {test}],
                     redirect("counselor_dashboard", "Assessment deleted successfully!"))

---------------------------------------------------------------------------
(* The test routes of src/app.py, get-to-know-you and the gated pages.     *)

\* str.upper() on one character
upper_char(c) ==
    IF \E k \in 1..Len(LowerCase) : LowerCase[k] = c
    THEN UpperCase[CHOOSE k \in 1..Len(LowerCase) : LowerCase[k] = c]
    ELSE c

is_letter(c) == \E k \in 1..Len(LowerCase) : c \in {LowerCase[k], UpperCase[k]}

\* str.title(): a letter is upper case at the start of a word and lower
\* case inside it
title(s) ==
    [k \in 1..Len(s) |->
        IF k = 1 \/ ~is_letter(s[k - 1]) THEN upper_char(s[k]) ELSE lower_char(s[k])]

\* str.startswith()
startswith(s, prefix) ==
    /\ Len(s) >= Len(prefix)
    /\ SubSeq(s, 1, Len(prefix)) = prefix

\* the 'type' of an evaluator's result and the label of comprehension, as str
type_text(type) ==
    CASE type = "Dyslexia" -> <<"D", "y", "s", "l", "e", "x", "i", "a">>
      [] type = "Dyscalculia" -> <<"D", "y", "s", "c", "a", "l", "c", "u", "l", "i", "a">>
      [] type = "Working Memory" -> <<"W", "o", "r", "k", "i", "n", "g", " ", "M", "e", "m", "o", "r", "y">>
      [] type = "Phonetics" -> <<"P", "h", "o", "n", "e", "t", "i", "c", "s">>
      [] type = "Comprehension" -> <<"C", "o", "m", "p", "r", "e", "h", "e", "n", "s", "i", "o", "n">>

\* f"{type} ({difficulty.title()})" of lines 591, 656, 709, 761 and 830
test_type_label(type, difficulty) ==
    type_text(type) \o <<" ", "(">> \o title(difficulty) \o <<")">>

DIFFICULTY_LEVELS == {easy, medium, hard}

\* _normalize_difficulty, lines 52-57; ok is false where the code aborts
\* with 404
_normalize_difficulty(difficulty) ==
    LET normalized == lower(IF difficulty \in {None, <<>>} THEN medium ELSE difficulty)
    IN  [ok |-> normalized \in DIFFICULTY_LEVELS, val |-> normalized]

\* _required_base_tests, lines 60-62
_required_base_tests == {"comprehension", "memory", "phonetics"}

\* _normalize_test_to_base, lines 65-77; "none" is None
_normalize_test_to_base(test_type) ==
    IF test_type \in {None, <<>>}
    THEN "none"
    ELSE LET t == lower(test_type)
         IN  IF startswith(t, <<"c", "o", "m", "p", "r", "e", "h", "e", "n", "s", "i", "o", "n">>)
             THEN "comprehension"
             ELSE IF startswith(t, <<"w", "o", "r", "k", "i", "n", "g", " ", "m", "e", "m", "o", "r", "y">>)
             THEN "memory"
             ELSE IF startswith(t, <<"d", "y", "s", "c", "a", "l", "c", "u", "l", "i", "a">>) \/ startswith(t, <<"p", "h", "o", "n", "e", "t", "i", "c", "s">>)
             THEN "phonetics"
             ELSE "none"

\* _get_completed_base_tests, lines 80-92
_get_completed_base_tests(st, user) ==
    {_normalize_test_to_base(r.test_type) :
        r \in {x \in st.results : x.email = user.email}} \ {"none"}

\* _get_progress, lines 95-100; no count of the three lies half way between
\* two percentages
_get_progress(st, user) ==
    LET done == _get_completed_base_tests(st, user)
        total == Cardinality(_required_base_tests)
    IN  [done |-> done,
         total |-> total,
         pct |-> IF total # 0
                 THEN (2 * Cardinality(done) * 100 + total) \div (2 * total)
                 ELSE 0]

\* the roles the views let past their gates
staff == {"admin", "superuser", "counselor"}

\* login_required, lines 130-138; view is the outcome of the wrapped view
login_required(st, req, view) ==
    IF st.session = no_user_id
    THEN outcome(st, redirect("login", "Please log in to access this page."))
    ELSE view

\* _ensure_test_user with the get-to-know-you step not asked for
_ensure_test_user_unprepared(st) ==
    LET user == get(st.users, st.session)
    IN  IF user.id = no_row.id
        THEN [user |-> user, st |-> [st EXCEPT !.session = no_user_id],
              redirect_resp |-> redirect("login", "Session expired. Please log in again.")]
        ELSE [user |-> user, st |-> st, redirect_resp |-> no_response]

\* _ensure_test_user, lines 103-115; redirect_resp is no_response for None
_ensure_test_user(st) ==
    LET user == get(st.users, st.session)
    IN  IF user.id = no_row.id
        THEN [user |-> user, st |-> [st EXCEPT !.session = no_user_id],
              redirect_resp |-> redirect("login", "Session expired. Please log in again.")]
        ELSE IF ~user.completed_get_to_know_you
        THEN [user |-> user, st |-> st,
              redirect_resp |-> redirect("landing",
                  "Please complete the \"Get to Know You\" assessment first.")]
        ELSE [user |-> user, st |-> st, redirect_resp |-> no_response]

\* get_to_know_you, lines 513-541
get_to_know_you(st, req) ==
    LET user == get(st.users, st.session)
        done == [user EXCEPT
                    !.completed_get_to_know_you = TRUE,
                    !.g2k_learning_style = strip(form_get(req.form, "learning_style", <<>>)),
                    !.g2k_diagnosed_difficulties =
                        strip(form_get(req.form, "diagnosed_difficulties", <<>>)),
                    !.g2k_age_group = strip(form_get(req.form, "age_group", <<>>))]
    IN  IF user.id = no_row.id
        THEN outcome([st EXCEPT !.session = no_user_id],
                     redirect("login", "Session expired. Please log in again."))
        ELSE IF user.completed_get_to_know_you
        THEN outcome(st, redirect("index", "none"))
        ELSE IF req.method = "POST"
        THEN outcome([st EXCEPT !.users = (@ \ {user}) \cup {done}],
                     redirect("index", "Assessment completed! You can now access the tests."))
        ELSE outcome(st, render_template("get_to_know_you.html", "none"))

\* request.form.getlist(key)
form_getlist(form, key) == form[key]

\* all(answers): no answer is None or ''
all_truthy(list) == \A k \in 1..Len(list) : list[k] \notin {None, <<>>}

\* any(answers)
any_truthy(list) == \E k \in 1..Len(list) : list[k] \notin {None, <<>>}

\* [request.form.get(f'q{i}') for i in range(1, 6)]
q_answers(form) ==
    <<form["q1"], form["q2"], form["q3"], form["q4"], form["q5"]>>

\* save_result, models.py lines 194-197
save_result(st, name, email, test_type, score, flag, message) ==
    [st EXCEPT !.results = @ \cup
        {[name |-> name, email |-> email, test_type |-> test_type,
          score |-> score, flag |-> flag, message |-> message]}]

\* the response after a saved result, lines 599-606, 659-661, 711-713,
\* 771-773 and 840-842
saved_response(user) ==
    IF user.role \in staff
    THEN render_template("results.html", "none")
    ELSE redirect("student_results", "none")

\* the branch of a level that is not available, lines 632-636, 687-691,
\* 737-741 and 797-801
level_unavailable(st, req, endpoint, template) ==
    IF req.method = "POST"
    THEN outcome(st, redirect(endpoint,
             "This difficulty level is coming soon. Please select Medium for the current assessment."))
    ELSE outcome(st, render_template(template, "none"))

\* the message with the runtime appended, lines 763-769; the runtime is
\* empty or a string of digits
with_runtime(message, runtime) ==
    IF runtime # <<>> /\ int(runtime).ok
    THEN <<message, " Time taken: ", int(runtime).val, "s">>
    ELSE message

\* test_dyslexia, lines 622-673
test_dyslexia(st, req) ==
    LET checked == _ensure_test_user(st)
        difficulty == _normalize_difficulty(req.difficulty)
        name == strip(form_get(req.form, "name", <<>>))
        email == lower(strip(form_get(req.form, "email", <<>>)))
        answer_list == q_answers(req.form)
        result_payload == evaluate_dyslexia(answer_list)
    IN  IF checked.redirect_resp # no_response
        THEN outcome(checked.st, checked.redirect_resp)
        ELSE IF ~difficulty.ok
        THEN outcome(st, redirect("landing",
                 "An error occurred during the test. Please try again."))
        ELSE IF difficulty.val # medium
        THEN level_unavailable(st, req, "test_dyslexia", "test_dyslexia.html")
        ELSE IF req.method # "POST"
        THEN outcome(st, render_template("test_dyslexia.html", "none"))
        ELSE IF name = <<>> \/ email = <<>>
        THEN outcome(st, redirect("test_dyslexia", "Name and email are required."))
        ELSE IF ~all_truthy(answer_list)
        THEN outcome(st, redirect("test_dyslexia", "Please answer all questions."))
        \* the payload is evaluated once
        ELSE CHOOSE saved \in
                 {outcome(save_result(st, name, email,
                                          test_type_label(payload.type, difficulty.val),
                                          payload.score, payload.flag, payload.message),
                              saved_response(checked.user)) :
                  payload \in {result_payload}} : TRUE

\* test_dyscalculia, lines 675-725
test_dyscalculia(st, req) ==
    LET checked == _ensure_test_user(st)
        difficulty == _normalize_difficulty(req.difficulty)
        name == strip(form_get(req.form, "name", <<>>))
        email == lower(strip(form_get(req.form, "email", <<>>)))
        answer_list == form_getlist(req.form, "answer")
        tgts == form_getlist(req.form, "target")
        result_payload == evaluate_dyscalculia(answer_list, tgts)
    IN  IF checked.redirect_resp # no_response
        THEN outcome(checked.st, checked.redirect_resp)
        ELSE IF ~difficulty.ok
        THEN outcome(st, redirect("landing",
                 "An error occurred during the test. Please try again."))
        ELSE IF difficulty.val # medium
        THEN level_unavailable(st, req, "test_dyscalculia", "test_dyscalculia.html")
        ELSE IF req.method # "POST"
        THEN outcome(st, render_template("test_dyscalculia.html", "none"))
        ELSE IF name = <<>> \/ email = <<>>
        THEN outcome(st, redirect("test_dyscalculia", "Name and email are required."))
        ELSE IF \/ answer_list = <<>>
                \/ tgts = <<>>
                \/ Len(answer_list) # Len(tgts)
                \/ \E k \in 1..Len(answer_list) : strip(OrEmpty(answer_list[k])) = <<>>
        THEN outcome(st, redirect("test_dyscalculia",
                 "Please complete all items before submitting."))
        \* the payload is evaluated once
        ELSE CHOOSE saved \in
                 {outcome(save_result(st, name, email,
                                          test_type_label(payload.type, difficulty.val),
                                          payload.score, payload.flag, payload.message),
                              saved_response(checked.user)) :
                  payload \in {result_payload}} : TRUE

\* test_memory, lines 727-785
test_memory(st, req) ==
    LET checked == _ensure_test_user(st)
        difficulty == _normalize_difficulty(req.difficulty)
        name == strip(form_get(req.form, "name", <<>>))
        email == lower(strip(form_get(req.form, "email", <<>>)))
        answer_list == form_getlist(req.form, "recall")
        tgts == form_getlist(req.form, "target")
        runtime == strip(OrEmpty(form_get(req.form, "runtime", <<>>)))
        result_payload == evaluate_memory(answer_list, tgts)
    IN  IF checked.redirect_resp # no_response
        THEN outcome(checked.st, checked.redirect_resp)
        ELSE IF ~difficulty.ok
        THEN outcome(st, redirect("landing",
                 "An error occurred during the test. Please try again."))
        ELSE IF difficulty.val # medium
        THEN level_unavailable(st, req, "test_memory", "test_memory.html")
        ELSE IF req.method # "POST"
        THEN outcome(st, render_template("test_memory.html", "none"))
        ELSE IF name = <<>> \/ email = <<>>
        THEN outcome(st, redirect("test_memory", "Name and email are required."))
        ELSE IF answer_list = <<>> \/ tgts = <<>>
        THEN outcome(st, redirect("test_memory", "Please provide recall answers."))
        \* the payload is evaluated once
        ELSE CHOOSE saved \in
                 {outcome(save_result(st, name, email,
                                          test_type_label(payload.type, difficulty.val),
                                          payload.score, payload.flag,
                                          with_runtime(payload.message, runtime)),
                              saved_response(checked.user)) :
                  payload \in {result_payload}} : TRUE

\* test_phonetics, lines 787-854; the name runtime of line 833 is not
\* defined, the NameError is passed over and the message stays as it is
test_phonetics(st, req) ==
    LET checked == _ensure_test_user(st)
        difficulty == _normalize_difficulty(req.difficulty)
        name == strip(form_get(req.form, "name", <<>>))
        email == lower(strip(form_get(req.form, "email", <<>>)))
        spells == form_getlist(req.form, "spell")
        tgts == form_getlist(req.form, "target")
        lvls == form_getlist(req.form, "level")
        legacy_answers == q_answers(req.form)
        result_payload == IF spells # <<>> /\ tgts # <<>>
                  THEN evaluate_phonetics(spells, tgts, lvls)
                  ELSE evaluate_phonetics_legacy_mcq(legacy_answers)
    IN  IF checked.redirect_resp # no_response
        THEN outcome(checked.st, checked.redirect_resp)
        ELSE IF ~difficulty.ok
        THEN outcome(st, redirect("landing",
                 "An error occurred during the test. Please try again."))
        ELSE IF difficulty.val # medium
        THEN level_unavailable(st, req, "test_phonetics", "test_phonetics_spelling.html")
        ELSE IF req.method # "POST"
        THEN outcome(st, render_template("test_phonetics_spelling.html", "none"))
        ELSE IF name = <<>> \/ email = <<>>
        THEN outcome(st, redirect("test_phonetics", "Name and email are required."))
        ELSE IF ~(spells # <<>> /\ tgts # <<>>) /\ ~any_truthy(legacy_answers)
        THEN outcome(st, redirect("test_phonetics",
                 "Please complete all items before submitting."))
        \* the payload is evaluated once
        ELSE CHOOSE saved \in
                 {outcome(save_result(st, name, email,
                                          test_type_label("Phonetics", difficulty.val),
                                          payload.score, payload.flag, payload.message),
                              saved_response(checked.user)) :
                  payload \in {result_payload}} : TRUE

\* the answer of each question of QUESTIONS, by id
QUESTION_ANSWERS ==
    <<"c", "b", "a", "b", "b", "c", "b", "b", "c", "b", "b", "a", "a", "a", "b", "c", "b", "b", "b", "c", "b", "b", "b", "b", "a", "b", "b", "b", "a", "b">>

\* the passage of the question with this id
question_passage(id) ==
    IF id <= 10 THEN "procrastination"
    ELSE IF id <= 20 THEN "perfectionism"
    ELSE "multitasking"

\* QUESTIONS, comprehension_questions.py lines 77-293: id, passage and
\* answer of every question
QUESTIONS ==
    {[id |-> id, passage |-> question_passage(id), answer |-> <<QUESTION_ANSWERS[id]>>] :
        id \in DOMAIN QUESTION_ANSWERS}

\* LEVEL_PASSAGES, comprehension_questions.py lines 302-306
LEVEL_PASSAGES ==
    [difficulty \in DIFFICULTY_LEVELS |->
        IF difficulty = easy THEN "procrastination"
        ELSE IF difficulty = medium THEN "perfectionism"
        ELSE "multitasking"]

\* the first n questions of a pool, by id
first_questions(pool, n) ==
    {q \in pool : Cardinality({p \in pool : p.id < q.id}) < n}

\* get_questions_for_difficulty, comprehension_questions.py lines 309-340:
\* the sets of questions a call can return; random.Random(None) is seeded
\* by the system, and rng.sample gives any five questions of the pool.  The
\* draws followed are those among the first MaxDrawn questions of the pool
get_questions_for_difficulty ==
    [difficulty \in DIFFICULTY_LEVELS |->
        LET pool == {q \in QUESTIONS : q.passage = LEVEL_PASSAGES[difficulty]}
        IN  IF Cardinality(pool) >= 5
            THEN {chosen \in SUBSET first_questions(pool, MaxDrawn) :
                     Cardinality(chosen) = 5}
            ELSE {pool}]

\* str.isdigit()
isdigit(s) == s # <<>> /\ \A k \in 1..Len(s) : is_digit(s[k])

\* the returns the call of line 557 can give to this request; the call is
\* not reached by a request that is turned away before it
questions_drawn(st, req) ==
    IF /\ st.session # no_user_id
       /\ _ensure_test_user(st).redirect_resp = no_response
       /\ _normalize_difficulty(req.difficulty).ok
    THEN get_questions_for_difficulty[_normalize_difficulty(req.difficulty).val]
    ELSE {{}}

\* test_comprehension, lines 545-620; chosen_questions is what the call of
\* get_questions_for_difficulty returned to this request
test_comprehension(st, req, chosen_questions) ==
    LET checked == _ensure_test_user(st)
        user == checked.user
        difficulty == _normalize_difficulty(req.difficulty)
        counted == {key \in DOMAIN req.form :
                       key # <<>> /\ Head(key) = "q" /\ isdigit(Tail(key))}
        total == Cardinality(counted)
        score == Cardinality({key \in counted :
                     \E question \in chosen_questions :
                         /\ question.id = int(Tail(key)).val
                         /\ req.form[key] = question.answer})
        message == <<"You scored ", score, "/", total, ".">>
    IN  IF checked.redirect_resp # no_response
        THEN outcome(checked.st, checked.redirect_resp)
        ELSE IF ~difficulty.ok
        THEN outcome(st, redirect("landing",
                 "Error during comprehension test. Try again."))
        ELSE IF req.method # "POST"
        THEN outcome(st, [render_template("test_comprehension.html", "none")
                             EXCEPT !.test_data = chosen_questions])
        ELSE IF total = 0
        THEN outcome(st, redirect("test_comprehension",
                 "No questions available for this difficulty yet. Please try another level."))
        ELSE outcome(save_result(st, user.name, user.email,
                                 test_type_label("Comprehension", difficulty.val),
                                 score, score < total \div 2, message),
                     saved_response(user))

\* student_results with the count of completed tests not looked at
student_results_ungated(st, req) ==
    LET user == get(st.users, st.session)
    IN  IF user.id = no_row.id
        THEN outcome(st, redirect("assessments", "An error occurred loading your results."))
        ELSE outcome(st, render_template("results.html", "none"))

\* student_results, lines 1050-1152; a session without its user row ends
\* in the except branch
student_results(st, req) ==
    LET user == get(st.users, st.session)
        progress == _get_progress(st, user)
    IN  IF user.id = no_row.id
        THEN outcome(st, redirect("assessments", "An error occurred loading your results."))
        ELSE IF user.role \notin staff /\ Cardinality(progress.done) < progress.total
        THEN outcome(st, redirect("assessments", "Please complete all tests to view results"))
        ELSE outcome(st, render_template("results.html", "none"))

\* programs, lines 1154-1238
programs(st, req) ==
    LET user == get(st.users, st.session)
        progress == _get_progress(st, user)
    IN  IF user.id = no_row.id
        THEN outcome(st, redirect("assessments", "An error occurred loading your programs."))
        ELSE IF user.role \notin staff /\ Cardinality(progress.done) < progress.total
        THEN outcome(st, redirect("assessments",
                 "Please complete all tests to unlock personalized programs"))
        ELSE outcome(st, render_template("programs.html", "none"))

---------------------------------------------------------------------------
(* The administration routes of Learning-Disability-Detector-Beta/app.py   *)
(* and its password reset workflow.  A token of the serializer is the      *)
(* email it signs and the moment it was made, told by the number of the    *)
(* request it was made for; signed is false for a string the serializer    *)
(* did not make.  No route followed here adds a program, so that the       *)
(* programs a counselor created are none.                                  *)

\* werkzeug's generate_password_hash and check_password_hash, models.py
\* lines 36-40
generate_password_hash(password) == [hashed |-> password]

check_password(user, password) == user.password_hash = generate_password_hash(password)

\* serializer.dumps(email, salt='password-reset-salt')
serializer_dumps(email, moment) == [email |-> email, moment |-> moment, signed |-> TRUE]

\* serializer.loads(token, salt='password-reset-salt', max_age=3600); ok is
\* false where it raises
serializer_loads(token, expired) ==
    [ok |-> token.signed /\ ~expired, email |-> token.email]

forbidden ==
    [status |-> 403, redirect |-> "none", template |-> "403.html", flash |-> "none",
     test_data |-> {}]

\* role_required, utils/roles.py lines 18-36; view is the outcome of the
\* wrapped view
role_required(st, required_roles, view) ==
    IF st.session = no_user_id
    THEN outcome(st, forbidden)
    ELSE LET user == get(st.users, st.session)
         IN  IF user.id = no_row.id \/ user.role \notin required_roles \/ ~user.active
             THEN outcome(st, forbidden)
             ELSE view

\* the hardcoded branches of the Beta login, lines 469-487 and 489-507
beta_hardcoded_login(st, email, password, name, role, age, endpoint, message) ==
    LET found == \E u \in st.users : u.email = email
        user == IF found THEN CHOOSE u \in st.users : u.email = email
                ELSE [id |-> next_id(st.users), name |-> name, email |-> email,
                      role |-> role, active |-> TRUE, age |-> age,
                      gender |-> <<"O", "t", "h", "e", "r">>,
                      course |-> <<"N", "/", "A">>, year |-> <<"N", "/", "A">>,
                      password_hash |-> generate_password_hash(password),
                      completed_get_to_know_you |-> FALSE]
    IN  outcome([st EXCEPT !.users = @ \cup {user}, !.session = user.id],
                redirect(endpoint, message))

\* login (POST) of the Beta application, lines 456-526
beta_login(st, req) ==
    LET email == lower(strip(form_get(req.form, "email", <<>>)))
        password == form_get(req.form, "password", <<>>)
    IN  IF email = <<>> \/ password = <<>>
        THEN outcome(st, redirect("login", "Email and password are required."))
        ELSE IF email = admin_email /\ password = admin_password
        THEN beta_hardcoded_login(st, email, password, Administrator, "admin", 30,
                                  "admin_dashboard", "Logged in successfully as Admin!")
        ELSE IF email = counselor_email /\ password = counselor_password
        THEN beta_hardcoded_login(st, email, password, Counselor, "counselor", 28,
                                  "counselor_dashboard", "Logged in successfully as Counselor!")
        ELSE IF \E u \in st.users : u.email = email /\ check_password(u, password)
        THEN LET user == CHOOSE u \in st.users : u.email = email
             IN  outcome([st EXCEPT !.session = user.id],
                         redirect(IF user.role = "admin" THEN "admin_dashboard"
                                  ELSE IF user.role = "counselor" THEN "counselor_dashboard"
                                  ELSE IF user.role # "student" THEN "index"
                                  ELSE IF user.completed_get_to_know_you THEN "assessments"
                                  ELSE "get_to_know_you",
                                  "Logged in successfully!"))
        ELSE outcome(st, render_template("login.html", "Invalid email or password."))

\* the value of the role column for a role sent in a form
role_name(role) ==
    IF role = <<"a", "d", "m", "i", "n">> THEN "admin"
    ELSE IF role = <<"c", "o", "u", "n", "s", "e", "l", "o", "r">> THEN "counselor"
    ELSE "student"

\* the row user with one column changed
with_role(st, user, role) ==
    [st EXCEPT !.users = (@ \ {user}) \cup {[user EXCEPT !.role = role]}]

with_active(st, user, active) ==
    [st EXCEPT !.users = (@ \ {user}) \cup {[user EXCEPT !.active = active]}]

\* admin_update_user_role with the admin's own row not told apart
admin_update_user_role_own_too(st, req) ==
    LET new_role == lower(strip(form_get(req.form, "role", <<>>)))
        user == get(st.users, req.id)
    IN  IF new_role \notin {<<"a", "d", "m", "i", "n">>, <<"c", "o", "u", "n", "s", "e", "l", "o", "r">>, <<"s", "t", "u", "d", "e", "n", "t">>}
        THEN outcome(st, redirect("admin_dashboard", "Invalid role selection."))
        ELSE IF user.id = no_row.id
        THEN outcome(st, redirect("admin_dashboard", "User not found."))
        ELSE outcome(with_role(st, user, role_name(new_role)),
                     redirect("admin_dashboard",
                              <<"Updated ", user.name, "'s role to ", title(new_role), ".">>))

\* admin_update_user_role, lines 1155-1182
admin_update_user_role(st, req) ==
    LET new_role == lower(strip(form_get(req.form, "role", <<>>)))
        user == get(st.users, req.id)
    IN  IF new_role \notin {<<"a", "d", "m", "i", "n">>, <<"c", "o", "u", "n", "s", "e", "l", "o", "r">>, <<"s", "t", "u", "d", "e", "n", "t">>}
        THEN outcome(st, redirect("admin_dashboard", "Invalid role selection."))
        ELSE IF user.id = no_row.id
        THEN outcome(st, redirect("admin_dashboard", "User not found."))
        ELSE IF user.id = st.session /\ new_role # <<"a", "d", "m", "i", "n">>
        THEN outcome(st, redirect("admin_dashboard",
                 "You cannot remove your own admin privileges."))
        ELSE outcome(with_role(st, user, role_name(new_role)),
                     redirect("admin_dashboard",
                              <<"Updated ", user.name, "'s role to ", title(new_role), ".">>))

\* admin_toggle_user_active, lines 1185-1205
admin_toggle_user_active(st, req) ==
    LET user == get(st.users, req.id)
    IN  IF user.id = no_row.id
        THEN outcome(st, redirect("admin_dashboard", "User not found."))
        ELSE IF user.id = st.session
        THEN outcome(st, redirect("admin_dashboard",
                 "You cannot change your own active status."))
        ELSE outcome(with_active(st, user, ~user.active),
                     redirect("admin_dashboard",
                              <<"User ", user.name, " is now ",
                                IF ~user.active THEN "active" ELSE "inactive", ".">>))

\* user.programs_created, models.py line 42
programs_created(st, user) == {p \in st.programs : p.creator_id = user.id}

\* admin_delete_user, lines 1208-1243; of the dependent records it cleans
\* up, the password reset requests are the ones kept here
admin_delete_user(st, req) ==
    LET user == get(st.users, req.id)
    IN  IF user.id = no_row.id
        THEN outcome(st, redirect("admin_dashboard", "User not found."))
        ELSE IF user.id = st.session
        THEN outcome(st, redirect("admin_dashboard", "You cannot delete your own account."))
        ELSE IF user.role = "counselor" /\ Cardinality(programs_created(st, user)) > 0
        THEN outcome(st, redirect("admin_dashboard",
                 "Please reassign or remove programs created by this counselor before deleting the account."))
        ELSE outcome([st EXCEPT
                         !.reset_requests =
                             {r \in @ : ~(r.user_id = user.id \/ r.email = user.email)},
                         !.users = @ \ {user}],
                     redirect("admin_dashboard", "User account deleted successfully."))

\* forgot_password (POST), lines 962-1000
forgot_password(st, req) ==
    LET email == lower(strip(form_get(req.form, "email", <<>>)))
        found == \E u \in st.users : u.email = email
        reset_request ==
            [id |-> next_id(st.reset_requests),
             user_id |-> IF found THEN (CHOOSE u \in st.users : u.email = email).id
                         ELSE no_user_id,
             email |-> email,
             token |-> serializer_dumps(email, next_id(st.reset_requests)),
             status |-> "pending",
             processed_at |-> "none"]
    IN  IF email = <<>>
        THEN outcome(st, redirect("forgot_password", "Please enter your email address."))
        ELSE IF \E r \in st.reset_requests :
                    r.email = email /\ r.status \in {"pending", "approved"}
        THEN outcome(st, redirect("forgot_password",
                 "A password reset request is already pending approval. Please wait for an administrator to respond."))
        ELSE outcome([st EXCEPT !.reset_requests = @ \cup {reset_request}],
                     redirect("login",
                 "Your password reset request has been submitted for administrator approval. You will receive instructions once it is approved."))

\* reset_password, lines 1066-1107; expired tells whether the token is
\* older than max_age
reset_password(st, req, expired) ==
    LET loaded == serializer_loads(req.token, expired)
        found == \E u \in st.users : u.email = loaded.email
        user == CHOOSE u \in st.users : u.email = loaded.email
        password == form_get(req.form, "password", <<>>)
        confirm_password == form_get(req.form, "confirm_password", <<>>)
    IN  IF ~loaded.ok
        THEN outcome(st, redirect("forgot_password",
                 "The password reset link is invalid or has expired. Please request a new one."))
        ELSE IF ~found
        THEN outcome(st, redirect("forgot_password", "Invalid user."))
        ELSE IF req.method # "POST"
        THEN outcome(st, render_template("reset_password.html", "none"))
        ELSE IF password = <<>>
        THEN outcome(st, redirect("reset_password", "Please enter a new password."))
        ELSE IF Len(password) < 6
        THEN outcome(st, redirect("reset_password",
                 "Password must be at least 6 characters long."))
        ELSE IF password # confirm_password
        THEN outcome(st, redirect("reset_password", "Passwords do not match."))
        ELSE outcome([st EXCEPT !.users = (@ \ {user}) \cup
                         {[user EXCEPT !.password_hash = generate_password_hash(password)]}],
                     redirect("login",
                 "Your password has been updated successfully. Please log in with your new password."))

\* the request row with its status set and processed_at stamped
processed(st, reset_request, status) ==
    [st EXCEPT !.reset_requests = (@ \ {reset_request}) \cup
        {[reset_request EXCEPT !.status = status, !.processed_at = "utcnow"]}]

\* admin_approve_reset_request, lines 1246-1293; mail is "sent", "failed"
\* (mail.send raises after the commit) or "unconfigured" (no MAIL_USERNAME)
admin_approve_reset_request(st, req, mail) ==
    LET reset_request == get(st.reset_requests, req.id)
    IN  IF reset_request.id = no_row.id
        THEN outcome(st, redirect("admin_dashboard", "Reset request not found."))
        ELSE IF reset_request.status \notin {"pending", "approved"}
        THEN outcome(st, redirect("admin_dashboard",
                 "This reset request is not pending approval."))
        ELSE outcome(processed(st, reset_request, "approved"),
                     redirect("admin_dashboard",
                         IF mail = "sent"
                         THEN "Password reset approved and email sent to the user."
                         ELSE IF mail = "failed"
                         THEN "Unable to approve password reset request."
                         ELSE "Password reset approved. Development mode link: {reset_url}"))

\* the answer of the errorhandler for 500, lines 1686-1692
internal_error ==
    redirect("index", "An unexpected error occurred. Please try again.")

\* admin_deny_reset_request, lines 1296-1327: after the commit the view
\* comes to its end without a response, which Flask answers through the
\* errorhandler for 500
admin_deny_reset_request(st, req) ==
    LET reset_request == get(st.reset_requests, req.id)
    IN  IF reset_request.id = no_row.id
        THEN outcome(st, redirect("admin_dashboard", "Reset request not found."))
        ELSE IF reset_request.status \notin {"pending", "approved"}
        THEN outcome(st, redirect("admin_dashboard", "This reset request cannot be denied."))
        ELSE outcome(processed(st, reset_request, "denied"), internal_error)

---------------------------------------------------------------------------
(* The requests the browsers send, and the application serving them one at *)
(* a time.                                                                 *)

\* forms posted to /signup
SignupForms ==
    { Form([name |-> <<"T", "e", "s", "t", " ", "S", "t", "u", "d", "e", "n", "t">>,
             email |-> <<" ", "S", "t", "u", "d", "e", "n", "t", "@", "T", "e", "s", "t", ".", "c", "o", "m", " ">>,
             password |-> <<"p", "a", "s", "s", "w", "o", "r", "d", "1", "2", "3">>,
             age |-> <<"2", "0">>,
             gender |-> <<"O", "t", "h", "e", "r">>,
             course |-> <<"C", "o", "m", "p", "u", "t", "e", "r", " ", "S", "c", "i", "e", "n", "c", "e">>,
             year |-> <<"2", "0", "2", "3">>]),
      Form([name |-> <<"T", "e", "s", "t", " ", "S", "t", "u", "d", "e", "n", "t">>,
             email |-> <<" ", "S", "t", "u", "d", "e", "n", "t", "@", "T", "e", "s", "t", ".", "c", "o", "m", " ">>,
             password |-> <<"p", "a", "s", "s">>,
             age |-> <<"2", "0">>,
             gender |-> <<"O", "t", "h", "e", "r">>,
             course |-> <<"C", "o", "m", "p", "u", "t", "e", "r", " ", "S", "c", "i", "e", "n", "c", "e">>,
             year |-> <<"2", "0", "2", "3">>]),
      Form([name |-> <<"T", "e", "s", "t", " ", "S", "t", "u", "d", "e", "n", "t">>,
             email |-> <<" ", "S", "t", "u", "d", "e", "n", "t", "@", "T", "e", "s", "t", ".", "c", "o", "m", " ">>,
             password |-> <<"p", "a", "s", "s", "w", "o", "r", "d", "1", "2", "3">>,
             age |-> <<"x">>,
             gender |-> <<"O", "t", "h", "e", "r">>,
             course |-> <<"C", "o", "m", "p", "u", "t", "e", "r", " ", "S", "c", "i", "e", "n", "c", "e">>,
             year |-> <<"2", "0", "2", "3">>]) }

\* forms posted to /login
LoginForms ==
    { Form([email |-> <<" ", "C", "o", "u", "n", "s", "e", "l", "o", "r", "@", "L", "D", "D", "e", "t", "e", "c", "t", "o", "r", ".", "c", "o", "m">>,
             password |-> <<"c", "o", "u", "n", "s", "e", "l", "o", "r", "1", "2", "3">>]),
      Form([email |-> <<"s", "t", "u", "d", "e", "n", "t", "@", "t", "e", "s", "t", ".", "c", "o", "m">>,
             password |-> <<"p", "a", "s", "s", "w", "o", "r", "d", "1", "2", "3">>]),
      Form([email |-> <<"s", "t", "u", "d", "e", "n", "t", "@", "t", "e", "s", "t", ".", "c", "o", "m">>,
             password |-> <<"c", "o", "u", "n", "s", "e", "l", "o", "r", "1", "2", "3">>]),
      Form([email |-> <<"c", "o", "u", "n", "s", "e", "l", "o", "r", "@", "l", "d", "d", "e", "t", "e", "c", "t", "o", "r", ".", "c", "o", "m">>,
             password |-> <<>>]) }

\* forms posted to /counselor/add_program
ProgramForms ==
    { Form([name |-> <<" ", "P", "h", "o", "n", "i", "c", "s", " ">>,
             description |-> <<"D", "r", "i", "l", "l", "s">>,
             test_id |-> <<"1">>]),
      Form([name |-> <<"P", "h", "o", "n", "i", "c", "s">>,
             description |-> <<"D", "r", "i", "l", "l", "s">>,
             test_id |-> <<" ", "2">>]),
      Form([name |-> <<>>,
             description |-> <<"D", "r", "i", "l", "l", "s">>,
             test_id |-> <<"1">>]),
      Form([name |-> <<"P", "h", "o", "n", "i", "c", "s">>,
             test_id |-> <<"1">>]),
      Form([name |-> <<"P", "h", "o", "n", "i", "c", "s">>,
             description |-> <<"D", "r", "i", "l", "l", "s">>,
             test_id |-> <<>>]),
      Form([name |-> <<"P", "h", "o", "n", "i", "c", "s">>,
             description |-> <<"D", "r", "i", "l", "l", "s">>,
             test_id |-> <<"9", "9", "9">>]),
      Form([name |-> <<"P", "h", "o", "n", "i", "c", "s">>,
             description |-> <<"D", "r", "i", "l", "l", "s">>,
             test_id |-> <<"x", "1">>]),
      Form([name |-> <<" ", " ">>,
             description |-> <<"D", "r", "i", "l", "l", "s">>,
             test_id |-> <<"1">>]) }

\* forms posted to /counselor/add_assessment
AssessmentForms ==
    { Form([name |-> <<"M", "e", "m", "o", "r", "y">>,
             description |-> <<"R", "e", "c", "a", "l", "l">>,
             difficulty_level |-> <<"e", "a", "s", "y">>]),
      Form([name |-> <<" ", "M", "e", "m", "o", "r", "y", " ">>,
             description |-> <<"R", "e", "c", "a", "l", "l">>,
             difficulty_level |-> <<" ", "h", "a", "r", "d", " ">>]),
      Form([name |-> <<"R", "e", "a", "d", "i", "n", "g">>,
             description |-> <<"T", "e", "x", "t">>,
             difficulty_level |-> <<"i", "n", "v", "a", "l", "i", "d">>]),
      Form([name |-> <<"R", "e", "a", "d", "i", "n", "g">>,
             description |-> <<"T", "e", "x", "t">>]),
      Form([name |-> <<"R", "e", "a", "d", "i", "n", "g">>,
             description |-> <<"T", "e", "x", "t">>,
             difficulty_level |-> <<"H", "a", "r", "d">>]),
      Form([name |-> <<"R", "e", "a", "d", "i", "n", "g">>,
             description |-> <<" ", "T", "e", "x", "t">>,
             difficulty_level |-> <<"m", "e", "d", "i", "u", "m">>]),
      Form([name |-> <<>>,
             description |-> <<"T", "e", "x", "t">>,
             difficulty_level |-> <<"m", "e", "d", "i", "u", "m">>]),
      Form([name |-> <<"R", "e", "a", "d", "i", "n", "g">>,
             description |-> <<" ", " ">>,
             difficulty_level |-> <<"e", "a", "s", "y">>]) }

\* the <int:program_id> and <int:assessment_id> of the delete routes
RowIds == 1..MaxId

\* the database and the session as a view finds them
state ==
    [users |-> users, tests |-> tests, remedials |-> remedials,
     results |-> results, session |-> session]

\* the ids of the outcome out are ids the model lets the database hand out
served(out) ==
    /\ max_id(out.st.tests) <= MaxId
    /\ max_id(out.st.remedials) <= MaxId

\* POST /signup
Signup ==
    \E f \in SignupForms :
        LET req == [route |-> "signup", form |-> f, id |-> 0]
        IN  \E out \in {signup(state, req)} :
                /\ served(out)
                /\ users' = out.st.users
                /\ tests' = out.st.tests
                /\ remedials' = out.st.remedials
                /\ results' = out.st.results
                /\ session' = out.st.session
                /\ request' = req
                /\ response' = out.response
                /\ UNCHANGED <<edit_vars, eval_vars, thread_vars, reset_requests>>

\* POST /login
Login ==
    \E f \in LoginForms :
        LET req == [route |-> "login", form |-> f, id |-> 0]
        IN  \E out \in {login(state, req)} :
                /\ served(out)
                /\ users' = out.st.users
                /\ tests' = out.st.tests
                /\ remedials' = out.st.remedials
                /\ results' = out.st.results
                /\ session' = out.st.session
                /\ request' = req
                /\ response' = out.response
                /\ UNCHANGED <<edit_vars, eval_vars, thread_vars, reset_requests>>

\* GET /logout
Logout ==
    LET req == [route |-> "logout", form |-> no_form, id |-> 0]
    IN  \E out \in {logout(state, req)} :
            /\ served(out)
            /\ users' = out.st.users
            /\ tests' = out.st.tests
            /\ remedials' = out.st.remedials
            /\ results' = out.st.results
            /\ session' = out.st.session
            /\ request' = req
            /\ response' = out.response
            /\ UNCHANGED <<edit_vars, eval_vars, thread_vars, reset_requests>>

\* GET /counselor
CounselorDashboard ==
    LET req == [route |-> "counselor_dashboard", form |-> no_form, id |-> 0]
    IN  \E out \in {counselor_required(state, req, counselor_dashboard(state, req))} :
            /\ served(out)
            /\ users' = out.st.users
            /\ tests' = out.st.tests
            /\ remedials' = out.st.remedials
            /\ results' = out.st.results
            /\ session' = out.st.session
            /\ request' = req
            /\ response' = out.response
            /\ UNCHANGED <<edit_vars, eval_vars, thread_vars, reset_requests>>

\* POST /counselor/add_program
AddProgram ==
    \E f \in ProgramForms :
        LET req == [route |-> "add_program", form |-> f, id |-> 0]
        IN  \E out \in {counselor_required(state, req, add_program(state, req))} :
                /\ served(out)
                /\ users' = out.st.users
                /\ tests' = out.st.tests
                /\ remedials' = out.st.remedials
                /\ results' = out.st.results
                /\ session' = out.st.session
                /\ request' = req
                /\ response' = out.response
                /\ UNCHANGED <<edit_vars, eval_vars, thread_vars, reset_requests>>

\* POST /counselor/delete_program/<id>
DeleteProgram ==
    \E id \in RowIds :
        LET req == [route |-> "delete_program", form |-> no_form, id |-> id]
        IN  \E out \in {counselor_required(state, req, delete_program(state, req))} :
                /\ served(out)
                /\ users' = out.st.users
                /\ tests' = out.st.tests
                /\ remedials' = out.st.remedials
                /\ results' = out.st.results
                /\ session' = out.st.session
                /\ request' = req
                /\ response' = out.response
                /\ UNCHANGED <<edit_vars, eval_vars, thread_vars, reset_requests>>

\* POST /counselor/add_assessment
AddAssessment ==
    \E f \in AssessmentForms :
        LET req == [route |-> "add_assessment", form |-> f, id |-> 0]
        IN  \E out \in {counselor_required(state, req, add_assessment(state, req))} :
                /\ served(out)
                /\ users' = out.st.users
                /\ tests' = out.st.tests
                /\ remedials' = out.st.remedials
                /\ results' = out.st.results
                /\ session' = out.st.session
                /\ request' = req
                /\ response' = out.response
                /\ UNCHANGED <<edit_vars, eval_vars, thread_vars, reset_requests>>

\* POST /counselor/delete_assessment/<id>
DeleteAssessment ==
    \E id \in RowIds :
        LET req == [route |-> "delete_assessment", form |-> no_form, id |-> id]
        IN  \E out \in {counselor_required(state, req, delete_assessment(state, req))} :
                /\ served(out)
                /\ users' = out.st.users
                /\ tests' = out.st.tests
                /\ remedials' = out.st.remedials
                /\ results' = out.st.results
                /\ session' = out.st.session
                /\ request' = req
                /\ response' = out.response
                /\ UNCHANGED <<edit_vars, eval_vars, thread_vars, reset_requests>>

\* forms posted to /signup by anybody: the hardcoded emails are free to take
AccountSignupForms ==
    SignupForms \cup
    { Form([name |-> <<"T", "e", "s", "t", " ", "S", "t", "u", "d", "e", "n", "t">>,
             email |-> <<"c", "o", "u", "n", "s", "e", "l", "o", "r", "@", "l", "d", "d", "e", "t", "e", "c", "t", "o", "r", ".", "c", "o", "m">>,
             password |-> <<"p", "a", "s", "s", "w", "o", "r", "d", "1", "2", "3">>,
             age |-> <<"2", "0">>,
             gender |-> <<"O", "t", "h", "e", "r">>,
             course |-> <<"C", "o", "m", "p", "u", "t", "e", "r", " ", "S", "c", "i", "e", "n", "c", "e">>,
             year |-> <<"2", "0", "2", "3">>]),
      Form([name |-> <<"T", "e", "s", "t", " ", "S", "t", "u", "d", "e", "n", "t">>,
             email |-> <<" ", "A", "d", "m", "i", "n", "@", "L", "D", "D", "e", "t", "e", "c", "t", "o", "r", ".", "c", "o", "m">>,
             password |-> <<"p", "a", "s", "s", "w", "o", "r", "d", "1", "2", "3">>,
             age |-> <<"2", "0">>,
             gender |-> <<"O", "t", "h", "e", "r">>,
             course |-> <<"C", "o", "m", "p", "u", "t", "e", "r", " ", "S", "c", "i", "e", "n", "c", "e">>,
             year |-> <<"2", "0", "2", "3">>]) }

\* forms posted to /login by anybody
AccountLoginForms ==
    LoginForms \cup
    { Form([email |-> <<"a", "d", "m", "i", "n", "@", "l", "d", "d", "e", "t", "e", "c", "t", "o", "r", ".", "c", "o", "m">>,
             password |-> <<"a", "d", "m", "i", "n", "1", "2", "3">>]),
      Form([email |-> <<"c", "o", "u", "n", "s", "e", "l", "o", "r", "@", "l", "d", "d", "e", "t", "e", "c", "t", "o", "r", ".", "c", "o", "m">>,
             password |-> <<"p", "a", "s", "s", "w", "o", "r", "d", "1", "2", "3">>]) }

\* POST /signup
SignupAccount ==
    \E f \in AccountSignupForms :
        LET req == [route |-> "signup", form |-> f, id |-> 0]
        IN  \E out \in {signup(state, req)} :
                /\ users' = out.st.users
                /\ session' = out.st.session
                /\ request' = req
                /\ response' = out.response
                /\ UNCHANGED <<tests, remedials, results>>
                /\ UNCHANGED <<edit_vars, eval_vars, thread_vars, reset_requests>>

\* POST /login
LoginAccount ==
    \E f \in AccountLoginForms :
        LET req == [route |-> "login", form |-> f, id |-> 0]
        IN  \E out \in {login(state, req)} :
                /\ users' = out.st.users
                /\ session' = out.st.session
                /\ request' = req
                /\ response' = out.response
                /\ UNCHANGED <<tests, remedials, results>>
                /\ UNCHANGED <<edit_vars, eval_vars, thread_vars, reset_requests>>

\* signups and logins, and the pages the logins redirect to
NextAccounts ==
    \/ SignupAccount
    \/ LoginAccount
    \/ Logout
    \/ CounselorDashboard

\* str(n) of a natural number, as the template writes a question's id
RECURSIVE decimal(_)
decimal(n) ==
    IF n < 10 THEN <<Digits[n + 1]>>
    ELSE decimal(n \div 10) \o <<Digits[(n % 10) + 1]>>

\* the name of the input of a question in test_comprehension.html
question_key(id) == <<"q">> \o decimal(id)

\* a request to a test route
test_request(route, method, difficulty, form) ==
    [route |-> route, method |-> method, difficulty |-> difficulty,
     form |-> form, id |-> 0]

TestMethods == {"GET", "POST"}

\* the form posted to /get-to-know-you
G2KForms ==
    { Form([learning_style |-> <<" ", "v", "i", "s", "u", "a", "l", " ">>,
            diagnosed_difficulties |-> <<"n", "o", "n", "e">>,
            age_group |-> <<"1", "8", "-", "2", "4">>]) }

\* forms posted to /test/dyslexia: the key answered, and the last answer
\* left out
DyslexiaForms ==
    { Form([name |-> <<"T", "e", "s", "t", " ", "S", "t", "u", "d", "e", "n", "t">>, email |-> <<" ", "S", "t", "u", "d", "e", "n", "t", "@", "T", "e", "s", "t", ".", "c", "o", "m">>,
            q1 |-> <<"b">>, q2 |-> <<"b">>, q3 |-> <<"a">>, q4 |-> <<"a">>,
            q5 |-> <<"b">>]),
      Form([name |-> <<"T", "e", "s", "t", " ", "S", "t", "u", "d", "e", "n", "t">>, email |-> <<" ", "S", "t", "u", "d", "e", "n", "t", "@", "T", "e", "s", "t", ".", "c", "o", "m">>,
            q1 |-> <<"b">>, q2 |-> <<"b">>, q3 |-> <<"a">>, q4 |-> <<"a">>]) }

\* the form posted to /test/dyscalculia: three items
DyscalculiaForms ==
    { Form([name |-> <<"T", "e", "s", "t", " ", "S", "t", "u", "d", "e", "n", "t">>, email |-> <<"s", "t", "u", "d", "e", "n", "t", "@", "t", "e", "s", "t", ".", "c", "o", "m">>,
            answer |-> <<<<"c", "a", "t">>, <<" ", "D", "o", "g">>, <<"s", "u", "n">>>>,
            target |-> <<<<"c", "a", "t">>, <<"d", "o", "g">>, <<"s", "u", "n">>>>]) }

\* the form posted to /test/memory: one recalled word with the time taken
MemoryForms ==
    { Form([name |-> <<"T", "e", "s", "t", " ", "S", "t", "u", "d", "e", "n", "t">>, email |-> <<"s", "t", "u", "d", "e", "n", "t", "@", "t", "e", "s", "t", ".", "c", "o", "m">>,
            recall |-> <<<<"k", "a", "t">>>>, target |-> <<<<"c", "a", "t">>>>, runtime |-> <<"7">>]) }

\* forms posted to /test/phonetics: two typed items, and nothing answered
PhoneticsForms ==
    { Form([name |-> <<"T", "e", "s", "t", " ", "S", "t", "u", "d", "e", "n", "t">>, email |-> <<"s", "t", "u", "d", "e", "n", "t", "@", "t", "e", "s", "t", ".", "c", "o", "m">>,
            spell |-> <<<<"s", "h", "i", "p">>, <<"f", "o", "n", "e">>>>, target |-> <<<<"s", "h", "i", "p">>, <<"p", "h", "o", "n", "e">>>>,
            level |-> <<<<"1">>, <<"2">>>>]),
      Form([name |-> <<"T", "e", "s", "t", " ", "S", "t", "u", "d", "e", "n", "t">>, email |-> <<"s", "t", "u", "d", "e", "n", "t", "@", "t", "e", "s", "t", ".", "c", "o", "m">>]) }

\* forms posted to /test/comprehension: one question answered with another
\* option than its key, next to a field that is no answer
ComprehensionForms ==
    { [key \in {question_key(11), <<"n", "a", "m", "e">>} |->
          IF key = <<"n", "a", "m", "e">> THEN <<"T", "e", "s", "t", " ", "S", "t", "u", "d", "e", "n", "t">> ELSE <<"a">>] }

\* the form a browser posts from a comprehension page: every question the
\* page shows, answered with its key
keyed_answers(page) ==
    [key \in {question_key(q.id) : q \in page} |->
        (CHOOSE q \in page : question_key(q.id) = key).answer]

\* POST or GET /get-to-know-you
GetToKnowYou ==
    \E m \in TestMethods, f \in G2KForms :
        LET req == test_request("get_to_know_you", m, None, f)
        IN  \E out \in {login_required(state, req, get_to_know_you(state, req))} :
                /\ users' = out.st.users
                /\ tests' = out.st.tests
                /\ remedials' = out.st.remedials
                /\ results' = out.st.results
                /\ session' = out.st.session
                /\ request' = req
                /\ response' = out.response
                /\ UNCHANGED <<edit_vars, eval_vars, thread_vars, reset_requests>>

\* POST /test/comprehension
TestComprehension ==
    \E f \in ComprehensionForms :
        LET req == test_request("test_comprehension", "POST", medium, f)
        IN  \E chosen \in questions_drawn(state, req) :
            \E out \in {login_required(state, req, test_comprehension(state, req, chosen))} :
                /\ users' = out.st.users
                /\ tests' = out.st.tests
                /\ remedials' = out.st.remedials
                /\ results' = out.st.results
                /\ session' = out.st.session
                /\ request' = req
                /\ response' = out.response
                /\ UNCHANGED <<edit_vars, eval_vars, thread_vars, reset_requests>>

\* GET /test/comprehension/<difficulty>
ComprehensionGet ==
    \E d \in DIFFICULTY_LEVELS :
        LET req == test_request("test_comprehension", "GET", d, <<>>)
        IN  \E chosen \in questions_drawn(state, req) :
            \E out \in {login_required(state, req, test_comprehension(state, req, chosen))} :
                /\ users' = out.st.users
                /\ tests' = out.st.tests
                /\ remedials' = out.st.remedials
                /\ results' = out.st.results
                /\ session' = out.st.session
                /\ request' = req
                /\ response' = out.response
                /\ UNCHANGED <<edit_vars, eval_vars, thread_vars, reset_requests>>

\* POST /test/comprehension/<difficulty> from the page the browser shows
ComprehensionAnswer ==
    /\ response.template = "test_comprehension.html"
    /\ LET req == test_request("test_comprehension", "POST", request.difficulty,
                               keyed_answers(response.test_data))
       IN  \E chosen \in questions_drawn(state, req) :
           \E out \in {login_required(state, req, test_comprehension(state, req, chosen))} :
                /\ users' = out.st.users
                /\ tests' = out.st.tests
                /\ remedials' = out.st.remedials
                /\ results' = out.st.results
                /\ session' = out.st.session
                /\ request' = req
                /\ response' = out.response
                /\ UNCHANGED <<edit_vars, eval_vars, thread_vars, reset_requests>>

\* GET or POST /test/dyslexia/<difficulty>
TestDyslexia ==
    \E m \in TestMethods, d \in {medium, hard}, f \in DyslexiaForms :
        LET req == test_request("test_dyslexia", m, d, IF m = "GET" THEN no_form ELSE f)
        IN  \E out \in {login_required(state, req, test_dyslexia(state, req))} :
                /\ users' = out.st.users
                /\ tests' = out.st.tests
                /\ remedials' = out.st.remedials
                /\ results' = out.st.results
                /\ session' = out.st.session
                /\ request' = req
                /\ response' = out.response
                /\ UNCHANGED <<edit_vars, eval_vars, thread_vars, reset_requests>>

\* POST /test/dyscalculia
TestDyscalculia ==
    \E f \in DyscalculiaForms :
        LET req == test_request("test_dyscalculia", "POST", medium, f)
        IN  \E out \in {login_required(state, req, test_dyscalculia(state, req))} :
                /\ users' = out.st.users
                /\ tests' = out.st.tests
                /\ remedials' = out.st.remedials
                /\ results' = out.st.results
                /\ session' = out.st.session
                /\ request' = req
                /\ response' = out.response
                /\ UNCHANGED <<edit_vars, eval_vars, thread_vars, reset_requests>>

\* POST /test/memory
TestMemory ==
    \E f \in MemoryForms :
        LET req == test_request("test_memory", "POST", medium, f)
        IN  \E out \in {login_required(state, req, test_memory(state, req))} :
                /\ users' = out.st.users
                /\ tests' = out.st.tests
                /\ remedials' = out.st.remedials
                /\ results' = out.st.results
                /\ session' = out.st.session
                /\ request' = req
                /\ response' = out.response
                /\ UNCHANGED <<edit_vars, eval_vars, thread_vars, reset_requests>>

\* POST /test/phonetics
TestPhonetics ==
    \E f \in PhoneticsForms :
        LET req == test_request("test_phonetics", "POST", medium, f)
        IN  \E out \in {login_required(state, req, test_phonetics(state, req))} :
                /\ users' = out.st.users
                /\ tests' = out.st.tests
                /\ remedials' = out.st.remedials
                /\ results' = out.st.results
                /\ session' = out.st.session
                /\ request' = req
                /\ response' = out.response
                /\ UNCHANGED <<edit_vars, eval_vars, thread_vars, reset_requests>>

\* GET /results
StudentResults ==
    LET req == test_request("student_results", "GET", None, no_form)
    IN  \E out \in {login_required(state, req, student_results(state, req))} :
            /\ users' = out.st.users
            /\ tests' = out.st.tests
            /\ remedials' = out.st.remedials
            /\ results' = out.st.results
            /\ session' = out.st.session
            /\ request' = req
            /\ response' = out.response
            /\ UNCHANGED <<edit_vars, eval_vars, thread_vars, reset_requests>>

\* GET /programs
Programs ==
    LET req == test_request("programs", "GET", None, no_form)
    IN  \E out \in {login_required(state, req, programs(state, req))} :
            /\ users' = out.st.users
            /\ tests' = out.st.tests
            /\ remedials' = out.st.remedials
            /\ results' = out.st.results
            /\ session' = out.st.session
            /\ request' = req
            /\ response' = out.response
            /\ UNCHANGED <<edit_vars, eval_vars, thread_vars, reset_requests>>

NextTests ==
    \/ Signup
    \/ Login
    \/ Logout
    \/ GetToKnowYou
    \/ TestComprehension
    \/ TestDyslexia
    \/ TestDyscalculia
    \/ TestMemory
    \/ TestPhonetics
    \/ StudentResults
    \/ Programs

NextComprehension ==
    \/ ComprehensionGet
    \/ ComprehensionAnswer

\* the database and the session as a view of the Beta application finds
\* them
beta_state ==
    [users |-> users, reset_requests |-> reset_requests, programs |-> {},
     session |-> session]

\* a request to the Beta application
beta_request(route, method, id, form, token) ==
    [route |-> route, method |-> method, id |-> id, form |-> form, token |-> token]

\* a string the serializer did not sign
forged_token == [email |-> counselor_email, moment |-> 0, signed |-> FALSE]

\* forms posted to the Beta /login: the two hardcoded accounts, and the
\* counselor with the password of ResetForms
BetaLoginForms ==
    { Form([email |-> <<"a", "d", "m", "i", "n", "@", "l", "d", "d", "e", "t", "e", "c", "t", "o", "r", ".", "c", "o", "m">>, password |-> <<"a", "d", "m", "i", "n", "1", "2", "3">>]),
      Form([email |-> <<" ", "C", "o", "u", "n", "s", "e", "l", "o", "r", "@", "L", "D", "D", "e", "t", "e", "c", "t", "o", "r", ".", "c", "o", "m">>, password |-> <<"c", "o", "u", "n", "s", "e", "l", "o", "r", "1", "2", "3">>]),
      Form([email |-> <<"c", "o", "u", "n", "s", "e", "l", "o", "r", "@", "l", "d", "d", "e", "t", "e", "c", "t", "o", "r", ".", "c", "o", "m">>, password |-> <<"n", "e", "w", "p", "a", "s", "s", "1">>]) }

\* forms posted to /admin/users/<id>/role
RoleForms ==
    { Form([role |-> <<" ", "A", "d", "m", "i", "n", " ">>]),
      Form([role |-> <<"s", "t", "u", "d", "e", "n", "t">>]),
      Form([role |-> <<"s", "u", "p", "e", "r", "u", "s", "e", "r">>]) }

\* the form posted to /forgot-password
ForgotForms ==
    { Form([email |-> <<" ", "C", "o", "u", "n", "s", "e", "l", "o", "r", "@", "L", "D", "D", "e", "t", "e", "c", "t", "o", "r", ".", "c", "o", "m", " ">>]) }

\* forms posted to /reset-password/<token>
ResetForms ==
    { Form([password |-> <<"n", "e", "w", "p", "a", "s", "s", "1">>, confirm_password |-> <<"n", "e", "w", "p", "a", "s", "s", "1">>]),
      Form([password |-> <<"n", "e", "w", "p", "a", "s", "s", "1">>, confirm_password |-> <<"n", "e", "w", "p", "a", "s", "s", "2">>]) }

\* what sending the approval mail can come to
MailOutcomes == {"sent", "failed", "unconfigured"}

\* POST /login of the Beta application
BetaLogin ==
    \E f \in BetaLoginForms :
        LET req == beta_request("login", "POST", 0, f, forged_token)
        IN  \E out \in {beta_login(beta_state, req)} :
                /\ max_id(out.st.users) <= MaxId
                /\ max_id(out.st.reset_requests) <= MaxId
                /\ users' = out.st.users
                /\ reset_requests' = out.st.reset_requests
                /\ session' = out.st.session
                /\ request' = req
                /\ response' = out.response
                /\ UNCHANGED <<edit_vars, eval_vars, thread_vars, tests, remedials, results>>

\* POST /admin/users/<user_id>/role
AdminUpdateUserRole ==
    \E id \in RowIds, f \in RoleForms :
        LET req == beta_request("admin_update_user_role", "POST", id, f, forged_token)
        IN  \E out \in {role_required(beta_state, {"admin"},
                                      admin_update_user_role(beta_state, req))} :
                /\ max_id(out.st.users) <= MaxId
                /\ max_id(out.st.reset_requests) <= MaxId
                /\ users' = out.st.users
                /\ reset_requests' = out.st.reset_requests
                /\ session' = out.st.session
                /\ request' = req
                /\ response' = out.response
                /\ UNCHANGED <<edit_vars, eval_vars, thread_vars, tests, remedials, results>>

\* POST /admin/users/<user_id>/toggle-active
AdminToggleUserActive ==
    \E id \in RowIds :
        LET req == beta_request("admin_toggle_user_active", "POST", id, no_form,
                                forged_token)
        IN  \E out \in {role_required(beta_state, {"admin"},
                                      admin_toggle_user_active(beta_state, req))} :
                /\ max_id(out.st.users) <= MaxId
                /\ max_id(out.st.reset_requests) <= MaxId
                /\ users' = out.st.users
                /\ reset_requests' = out.st.reset_requests
                /\ session' = out.st.session
                /\ request' = req
                /\ response' = out.response
                /\ UNCHANGED <<edit_vars, eval_vars, thread_vars, tests, remedials, results>>

\* POST /admin/users/<user_id>/delete
AdminDeleteUser ==
    \E id \in RowIds :
        LET req == beta_request("admin_delete_user", "POST", id, no_form, forged_token)
        IN  \E out \in {role_required(beta_state, {"admin"},
                                      admin_delete_user(beta_state, req))} :
                /\ max_id(out.st.users) <= MaxId
                /\ max_id(out.st.reset_requests) <= MaxId
                /\ users' = out.st.users
                /\ reset_requests' = out.st.reset_requests
                /\ session' = out.st.session
                /\ request' = req
                /\ response' = out.response
                /\ UNCHANGED <<edit_vars, eval_vars, thread_vars, tests, remedials, results>>

\* POST /forgot-password
ForgotPassword ==
    \E f \in ForgotForms :
        LET req == beta_request("forgot_password", "POST", 0, f, forged_token)
        IN  \E out \in {forgot_password(beta_state, req)} :
                /\ max_id(out.st.users) <= MaxId
                /\ max_id(out.st.reset_requests) <= MaxId
                /\ users' = out.st.users
                /\ reset_requests' = out.st.reset_requests
                /\ session' = out.st.session
                /\ request' = req
                /\ response' = out.response
                /\ UNCHANGED <<edit_vars, eval_vars, thread_vars, tests, remedials, results>>

\* GET or POST /reset-password/<token>, with a token of a request of the
\* table or a forged one
ResetPassword ==
    \E m \in TestMethods, f \in ResetForms, expired \in BOOLEAN,
       token \in {r.token : r \in reset_requests} \cup {forged_token} :
        LET req == beta_request("reset_password", m, 0,
                                IF m = "GET" THEN no_form ELSE f, token)
        IN  \E out \in {reset_password(beta_state, req, expired)} :
                /\ max_id(out.st.users) <= MaxId
                /\ max_id(out.st.reset_requests) <= MaxId
                /\ users' = out.st.users
                /\ reset_requests' = out.st.reset_requests
                /\ session' = out.st.session
                /\ request' = req
                /\ response' = out.response
                /\ UNCHANGED <<edit_vars, eval_vars, thread_vars, tests, remedials, results>>

\* POST /admin/reset-requests/<request_id>/approve
AdminApproveResetRequest ==
    \E id \in RowIds, mail \in MailOutcomes :
        LET req == beta_request("admin_approve_reset_request", "POST", id, no_form,
                                forged_token)
        IN  \E out \in {role_required(beta_state, {"admin"},
                                      admin_approve_reset_request(beta_state, req, mail))} :
                /\ max_id(out.st.users) <= MaxId
                /\ max_id(out.st.reset_requests) <= MaxId
                /\ users' = out.st.users
                /\ reset_requests' = out.st.reset_requests
                /\ session' = out.st.session
                /\ request' = req
                /\ response' = out.response
                /\ UNCHANGED <<edit_vars, eval_vars, thread_vars, tests, remedials, results>>

\* POST /admin/reset-requests/<request_id>/deny
AdminDenyResetRequest ==
    \E id \in RowIds :
        LET req == beta_request("admin_deny_reset_request", "POST", id, no_form,
                                forged_token)
        IN  \E out \in {role_required(beta_state, {"admin"},
                                      admin_deny_reset_request(beta_state, req))} :
                /\ max_id(out.st.users) <= MaxId
                /\ max_id(out.st.reset_requests) <= MaxId
                /\ users' = out.st.users
                /\ reset_requests' = out.st.reset_requests
                /\ session' = out.st.session
                /\ request' = req
                /\ response' = out.response
                /\ UNCHANGED <<edit_vars, eval_vars, thread_vars, tests, remedials, results>>

NextAdmins ==
    \/ BetaLogin
    \/ AdminUpdateUserRole
    \/ AdminToggleUserActive
    \/ AdminDeleteUser

NextResets ==
    \/ BetaLogin
    \/ ForgotPassword
    \/ ResetPassword
    \/ AdminApproveResetRequest
    \/ AdminDenyResetRequest

NextApp ==
    \/ Signup
    \/ Login
    \/ Logout
    \/ CounselorDashboard
    \/ AddProgram
    \/ DeleteProgram
    \/ AddAssessment
    \/ DeleteAssessment

---------------------------------------------------------------------------
(* The evaluators' callers: one call at a time, any input.                 *)

\* the entries of the answer lists of evaluate_dyscalculia and evaluate_memory
AnswerWords == {None, <<>>, <<"a">>, <<" ", "a", "B">>, <<"b", "a">>}

\* the entries of their target lists
TargetWords == {<<"a">>, <<"A", "b", " ">>}

\* the entries of evaluate_phonetics' spell_list, target_list and level_list
SpellWords == {None, <<"a">>, <<" ", "A">>}

SpellTargets == {<<"a">>, <<"B", " ">>}

LevelTokens == {<<"1">>, <<"2">>, <<" ", "3">>, <<"4">>, <<"x">>}

\* the entries of the answer list of evaluate_dyslexia
DyslexiaAnswers == {None, <<"a">>, <<"b">>, <<" ", "B">>}

\* the entries of the answer list of evaluate_phonetics_legacy_mcq
LegacyAnswers == {None, <<"a">>, <<"c">>, <<" ", "B">>}

cat == <<"c", "a", "t">>

dog == <<"d", "o", "g">>

\* the documented calls
DyscalculiaExamples == { << <<cat, dog>>, <<cat, dog>> >> }

MemoryExamples == { << << <<"k", "a", "t">> >>, <<cat>> >> }

PhoneticsExamples ==
    { << <<cat, dog, <<"s", "u", "n">> >>,
         <<cat, dog, <<"m", "o", "o", "n">> >>,
         << <<"1">>, <<"2">>, <<"3">> >> >> }

DyscalculiaInputs ==
    (ListsUpTo(AnswerWords, MaxItems) \X ListsUpTo(TargetWords, MaxItems))
        \cup DyscalculiaExamples

MemoryInputs ==
    (ListsUpTo(AnswerWords, MaxItems) \X ListsUpTo(TargetWords, MaxItems))
        \cup MemoryExamples

PhoneticsInputs ==
    (ListsUpTo(SpellWords, MaxSpell) \X ListsUpTo(SpellTargets, MaxSpell)
        \X ListsUpTo(LevelTokens, MaxSpell))
        \cup PhoneticsExamples

DyslexiaInputs == ListsUpTo(DyslexiaAnswers, MaxKeyed)

LegacyInputs == ListsUpTo(LegacyAnswers, MaxKeyed)

EvalIdle ==
    /\ fn = "idle"
    /\ answers = <<>> /\ targets = <<>> /\ levels = <<>>
    /\ result = no_result

CallDyslexia ==
    /\ fn = "idle"
    /\ \E ans \in DyslexiaInputs :
           /\ answers' = ans
           /\ result' = evaluate_dyslexia(ans)
    /\ fn' = "evaluate_dyslexia"
    /\ UNCHANGED <<targets, levels>>
    /\ UNCHANGED <<edit_vars, thread_vars, app_vars>>

CallDyscalculia ==
    /\ fn = "idle"
    /\ \E p \in DyscalculiaInputs :
           /\ answers' = p[1]
           /\ targets' = p[2]
           /\ result' = evaluate_dyscalculia(p[1], p[2])
    /\ fn' = "evaluate_dyscalculia"
    /\ UNCHANGED levels
    /\ UNCHANGED <<edit_vars, thread_vars, app_vars>>

CallMemory ==
    /\ fn = "idle"
    /\ \E p \in MemoryInputs :
           /\ answers' = p[1]
           /\ targets' = p[2]
           /\ result' = evaluate_memory(p[1], p[2])
    /\ fn' = "evaluate_memory"
    /\ UNCHANGED levels
    /\ UNCHANGED <<edit_vars, thread_vars, app_vars>>

CallPhonetics ==
    /\ fn = "idle"
    /\ \E p \in PhoneticsInputs :
           /\ answers' = p[1]
           /\ targets' = p[2]
           /\ levels' = p[3]
           /\ result' = evaluate_phonetics(p[1], p[2], p[3])
    /\ fn' = "evaluate_phonetics"
    /\ UNCHANGED <<edit_vars, thread_vars, app_vars>>

CallLegacy ==
    /\ fn = "idle"
    /\ \E ans \in LegacyInputs :
           /\ answers' = ans
           /\ result' = evaluate_phonetics_legacy_mcq(ans)
    /\ fn' = "evaluate_phonetics_legacy_mcq"
    /\ UNCHANGED <<targets, levels>>
    /\ UNCHANGED <<edit_vars, thread_vars, app_vars>>

\* the caller takes the record; the next call starts afresh
Return ==
    /\ fn # "idle"
    /\ fn' = "idle"
    /\ answers' = <<>> /\ targets' = <<>> /\ levels' = <<>>
    /\ result' = no_result
    /\ UNCHANGED <<edit_vars, thread_vars, app_vars>>

Init == EvalIdle /\ EditIdle /\ ThreadsIdle /\ AppStarted

Next ==
    \/ CallDyslexia
    \/ CallDyscalculia
    \/ CallMemory
    \/ CallPhonetics
    \/ CallLegacy
    \/ Return

Spec == Init /\ [][Next]_vars

InitEdits == EditInit /\ EvalIdle /\ ThreadsIdle /\ AppStarted

NextEdits == Entry \/ Iterate \/ Finish

SpecEdits == InitEdits /\ [][NextEdits]_vars

SpecThreads == Init /\ [][NextThreads]_vars

SpecApp == Init /\ [][NextApp]_vars

SpecAccounts == Init /\ [][NextAccounts]_vars

SpecTests == Init /\ [][NextTests]_vars

SpecAdmins == Init /\ [][NextAdmins]_vars

SpecResets == Init /\ [][NextResets]_vars

\* the student of SignupForms signed up and logged in, and get-to-know-you
\* completed: the state the three requests leave the started application in
StudentReady ==
    LET started == [users |-> {}, tests |-> {}, remedials |-> {}, results |-> {},
                    session |-> no_user_id]
        account == CHOOSE f \in SignupForms :
                       signup(started, [route |-> "signup", form |-> f, id |-> 0]).st
                           # started
        signed_up == signup(started, [route |-> "signup", form |-> account, id |-> 0]).st
        credentials == CHOOSE f \in LoginForms :
                           login(signed_up, [route |-> "login", form |-> f, id |-> 0]).st.users
                               = signed_up.users
                           /\ login(signed_up, [route |-> "login", form |-> f, id |-> 0]).st
                               # signed_up
        logged_in == login(signed_up, [route |-> "login", form |-> credentials, id |-> 0]).st
        req == test_request("get_to_know_you", "POST", None,
                            CHOOSE f \in G2KForms : TRUE)
    IN  [st |-> get_to_know_you(logged_in, req).st,
         request |-> req,
         response |-> get_to_know_you(logged_in, req).response]

InitComprehension ==
    /\ EvalIdle
    /\ EditIdle
    /\ ThreadsIdle
    /\ users = StudentReady.st.users
    /\ tests = StudentReady.st.tests
    /\ remedials = StudentReady.st.remedials
    /\ results = StudentReady.st.results
    /\ reset_requests = {}
    /\ session = StudentReady.st.session
    /\ request = StudentReady.request
    /\ response = StudentReady.response

SpecComprehension == InitComprehension /\ [][NextComprehension]_vars

---------------------------------------------------------------------------
(* The evaluators called with None in place of a list.                     *)
(*                                                                         *)
(* None passed as a list is the one-item list << <<"NoneType">> >>, which  *)
(* no list of strings and None entries equals.                             *)

\* longest list handed to an evaluator beside None
MaxGuarded == 2

NoneList == << <<"NoneType">> >>

\* x or []
or_list(x) == IF x = NoneList THEN <<>> ELSE x

\* what a call returns when it raises
raised(error) == [type |-> error]

\* evaluate_dyslexia: zip(None, correct) of line 4 raises TypeError
guarded_dyslexia(ans) ==
    IF ans = NoneList THEN raised("TypeError") ELSE evaluate_dyslexia(ans)

\* evaluate_dyscalculia: targets or [] of line 17, len(answers or []) of
\* line 21, which keeps answers[i] from being evaluated on None
guarded_dyscalculia(ans, tg) == evaluate_dyscalculia(or_list(ans), or_list(tg))

\* evaluate_memory: len(target_list or []) of line 83 keeps the loop, and so
\* len(target_list) of line 87, from running on None; len(recall_list or [])
\* of line 88 keeps recall_list[idx] from being evaluated on None
guarded_memory(recall, tg) == evaluate_memory(or_list(recall), or_list(tg))

\* evaluate_phonetics: lines 114-116
guarded_phonetics(spell, tg, lv) ==
    evaluate_phonetics(or_list(spell), or_list(tg), or_list(lv))

\* evaluate_phonetics_legacy_mcq: answers or [] of line 174
guarded_legacy(ans) == evaluate_phonetics_legacy_mcq(or_list(ans))

GuardedAnswers ==
    ListsUpTo({None, <<>>, <<"a">>, <<"b">>}, MaxGuarded) \cup {NoneList}

GuardedTargets ==
    ListsUpTo({<<"a">>, <<"b", "b">>}, MaxGuarded) \cup {NoneList}

GuardedLevels == ListsUpTo({<<"2">>}, MaxGuarded) \cup {NoneList}

GuardedCallDyslexia ==
    /\ fn = "idle"
    /\ \E ans \in GuardedAnswers :
           /\ answers' = ans
           /\ result' = guarded_dyslexia(ans)
    /\ fn' = "evaluate_dyslexia"
    /\ UNCHANGED <<targets, levels>>
    /\ UNCHANGED <<edit_vars, thread_vars, app_vars>>

GuardedCallDyscalculia ==
    /\ fn = "idle"
    /\ \E ans \in GuardedAnswers, tg \in GuardedTargets :
           /\ answers' = ans
           /\ targets' = tg
           /\ result' = guarded_dyscalculia(ans, tg)
    /\ fn' = "evaluate_dyscalculia"
    /\ UNCHANGED levels
    /\ UNCHANGED <<edit_vars, thread_vars, app_vars>>

GuardedCallMemory ==
    /\ fn = "idle"
    /\ \E ans \in GuardedAnswers, tg \in GuardedTargets :
           /\ answers' = ans
           /\ targets' = tg
           /\ result' = guarded_memory(ans, tg)
    /\ fn' = "evaluate_memory"
    /\ UNCHANGED levels
    /\ UNCHANGED <<edit_vars, thread_vars, app_vars>>

GuardedCallPhonetics ==
    /\ fn = "idle"
    /\ \E ans \in GuardedAnswers, tg \in GuardedTargets, lv \in GuardedLevels :
           /\ answers' = ans
           /\ targets' = tg
           /\ levels' = lv
           /\ result' = guarded_phonetics(ans, tg, lv)
    /\ fn' = "evaluate_phonetics"
    /\ UNCHANGED <<edit_vars, thread_vars, app_vars>>

GuardedCallLegacy ==
    /\ fn = "idle"
    /\ \E ans \in GuardedAnswers :
           /\ answers' = ans
           /\ result' = guarded_legacy(ans)
    /\ fn' = "evaluate_phonetics_legacy_mcq"
    /\ UNCHANGED <<targets, levels>>
    /\ UNCHANGED <<edit_vars, thread_vars, app_vars>>

NextGuarded ==
    \/ GuardedCallDyslexia
    \/ GuardedCallDyscalculia
    \/ GuardedCallMemory
    \/ GuardedCallPhonetics
    \/ GuardedCallLegacy
    \/ Return

SpecGuarded == Init /\ [][NextGuarded]_vars

---------------------------------------------------------------------------
(* What the claims speak of, stated without the code's operators.          *)

\* s without its leading and trailing whitespace
Trimmed(s) ==
    LET inked == {k \in 1..Len(s) : s[k] \notin Whitespace}
    IN  IF inked = {} THEN <<>>
        ELSE SubSeq(s, CHOOSE k \in inked : \A m \in inked : k <= m,
                       CHOOSE k \in inked : \A m \in inked : k >= m)

FoldChar(c) ==
    CASE c = "A" -> "a"
      [] c = "B" -> "b"
      [] c = "C" -> "c"
      [] c = "D" -> "d"
      [] c = "K" -> "k"
      [] OTHER -> c

\* s in lower case
Folded(s) == [k \in 1..Len(s) |-> FoldChar(s[k])]

\* the text of a value: None reads as the empty string
TextOf(x) == IF x = None THEN <<>> ELSE x

Canonical(x) == Folded(Trimmed(TextOf(x)))

\* s without its k-th character
Without(s, k) == SubSeq(s, 1, k - 1) \o SubSeq(s, k + 1, Len(s))

\* s and t are identical or one insertion, deletion or substitution apart
WithinOneEdit(s, t) ==
    \/ s = t
    \/ \E k \in 1..Len(s) : Without(s, k) = t
    \/ \E k \in 1..Len(t) : Without(t, k) = s
    \/ /\ Len(s) = Len(t)
       /\ \E k \in 1..Len(s) : \A m \in 1..Len(s) : m # k => s[m] = t[m]

\* the entry of a list at 1-based position k, '' past its end
EntryAt(list, k) == IF k <= Len(list) THEN list[k] ELSE <<>>

\* the answer at position k is the empty string, None, or not there
Unanswered(list, k) == k > Len(list) \/ list[k] = <<>> \/ list[k] = None

\* the positions an evaluator grades
Graded ==
    CASE fn = "evaluate_dyslexia" -> 1..Min(Len(answers), 5)
      [] fn = "evaluate_phonetics_legacy_mcq" -> 1..Min(Len(answers), 5)
      [] fn = "evaluate_dyscalculia" -> 1..Len(targets)
      [] fn = "evaluate_memory" -> 1..Len(targets)
      [] fn = "evaluate_phonetics" -> 1..Min(Len(targets), Len(answers))
      [] OTHER -> {}

Called == fn # "idle"

---------------------------------------------------------------------------
(* C1: _edits_leq_one(a, b) returns true exactly when the trimmed,         *)
(* lowercased a and b are identical or one insertion, deletion or          *)
(* substitution apart; ('cat','cat'), ('cat','cats') and ('','a') are true *)
(* and ('cat','dog') and ('ab','ba') are false.                            *)
C1_EditsLeqOneIsDistanceLeqOne ==
    pc = "done" =>
        /\ ret \in {"True", "False"}
        /\ (ret = "True") <=> WithinOneEdit(Canonical(arg_a), Canonical(arg_b))
        /\ (ret = "True") <=> _edits_leq_one(arg_a, arg_b)
        /\ arg_a = cat /\ arg_b = cat => ret = "True"
        /\ arg_a = cat /\ arg_b = <<"c", "a", "t", "s">> => ret = "True"
        /\ arg_a = <<>> /\ arg_b = <<"a">> => ret = "True"
        /\ arg_a = cat /\ arg_b = dog => ret = "False"
        /\ arg_a = <<"a", "b">> /\ arg_b = <<"b", "a">> => ret = "False"

\* the loop has accepted a pair one insertion or deletion apart
C1_Witness ==
    /\ pc = "done" /\ ret_line = 76 /\ ret = "True"
    /\ diff = 1 /\ Len(a) # Len(b) /\ i > 1 /\ j > 1

---------------------------------------------------------------------------
(* C2: every evaluator returns 0 <= score <= total (len(targets) for       *)
(* evaluate_dyscalculia and evaluate_memory, n for evaluate_phonetics, 5   *)
(* for the key-based ones) and score is the number of graded positions at  *)
(* which the variant's match predicate holds.                              *)
C2_Total ==
    CASE fn = "evaluate_dyslexia" -> 5
      [] fn = "evaluate_phonetics_legacy_mcq" -> 5
      [] fn = "evaluate_dyscalculia" -> Len(targets)
      [] fn = "evaluate_memory" -> Len(targets)
      [] fn = "evaluate_phonetics" -> Min(Len(targets), Len(answers))

C2_Matches(k) ==
    CASE fn = "evaluate_dyslexia" ->
             answers[k] = << <<"b">>, <<"b">>, <<"a">>, <<"a">>, <<"b">> >>[k]
      [] fn = "evaluate_phonetics_legacy_mcq" ->
             Canonical(answers[k]) = << <<"c">>, <<"b">>, <<"a">>, <<"a">>, <<"b">> >>[k]
      [] fn = "evaluate_dyscalculia" ->
             Canonical(EntryAt(answers, k)) = Canonical(targets[k])
      [] fn = "evaluate_memory" ->
             WithinOneEdit(Canonical(EntryAt(answers, k)), Canonical(targets[k]))
      [] fn = "evaluate_phonetics" ->
             Canonical(answers[k]) = Canonical(targets[k])

C2_ScoreCountsMatches ==
    Called =>
        /\ 0 <= result.score
        /\ result.score <= C2_Total
        /\ result.score = Cardinality({k \in Graded : C2_Matches(k)})

\* a call that counted some graded positions and not others
C2_Witness ==
    /\ fn = "evaluate_memory"
    /\ result.score = 2
    /\ result.total = 3

---------------------------------------------------------------------------
(* C3: in every evaluator an empty or missing answer at a graded position  *)
(* is never counted as correct, whatever the target or key there is.       *)
C3_CodeMatches(k) ==
    CASE fn = "evaluate_dyslexia" -> dyslexia_match(answers[k], dyslexia_key[k])
      [] fn = "evaluate_phonetics_legacy_mcq" -> legacy_match(answers[k], correct_key[k])
      [] fn = "evaluate_dyscalculia" -> dyscalculia_match(answers, targets, k)
      [] fn = "evaluate_memory" -> memory_match(answers, targets, k)
      [] fn = "evaluate_phonetics" -> phonetics_match(answers, targets, k)

C3_UnansweredNeverCounted ==
    Called =>
        /\ \A k \in Graded : Unanswered(answers, k) => ~C3_CodeMatches(k)
        /\ result.score <= Cardinality({k \in Graded : ~Unanswered(answers, k)})

---------------------------------------------------------------------------
(* C4: evaluate_memory returns total = len(target_list), score = the       *)
(* number of i < total with _edits_leq_one(recall_list[i] or '',           *)
(* target_list[i]), flag = (score < total // 2); the flag is false when    *)
(* total is 0, and (['kat'], ['cat']) gives score 1, total 1, flag false.  *)
C4_MemoryContract ==
    fn = "evaluate_memory" =>
        /\ result.total = Len(targets)
        /\ result.score =
               Cardinality({k \in 1..Len(targets) :
                   _edits_leq_one(EntryAt(answers, k), targets[k])})
        /\ result.flag = (result.score < result.total \div 2)
        /\ result.total = 0 => result.flag = FALSE
        /\ answers = << <<"k", "a", "t">> >> /\ targets = <<cat>> =>
               result.score = 1 /\ result.total = 1 /\ result.flag = FALSE

\* a recall below half of three targets is flagged
C4_Witness ==
    /\ fn = "evaluate_memory"
    /\ result.total = 3
    /\ result.score = 0
    /\ result.flag = TRUE

---------------------------------------------------------------------------
(* C5: evaluate_phonetics grades exactly the first n = min(len(target_list),*)
(* len(spell_list)) positions and ignores every entry beyond n; total = n, *)
(* score = the number of i < n whose trimmed, lowercased spelling equals   *)
(* the trimmed, lowercased target, flag = (score < n // 2); the documented *)
(* call gives score 2, total 3, flag false, tiers 1/1, 1/1 and 0/1.        *)
C5_N == Min(Len(targets), Len(answers))

C5_PhoneticsContract ==
    fn = "evaluate_phonetics" =>
        /\ result.total = C5_N
        /\ result.score =
               Cardinality({k \in 1..C5_N :
                   Canonical(answers[k]) = Canonical(targets[k])})
        /\ result.flag = (result.score < C5_N \div 2)
        /\ result = evaluate_phonetics(SubSeq(answers, 1, C5_N),
                                       SubSeq(targets, 1, C5_N),
                                       SubSeq(levels, 1, Min(C5_N, Len(levels))))
        /\ (/\ answers = <<cat, dog, <<"s", "u", "n">> >>
            /\ targets = <<cat, dog, <<"m", "o", "o", "n">> >>
            /\ levels = << <<"1">>, <<"2">>, <<"3">> >>) =>
               /\ result.score = 2 /\ result.total = 3 /\ result.flag = FALSE
               /\ result.level_breakdown =
                      [level1 |-> [correct |-> 1, total |-> 1],
                       level2 |-> [correct |-> 1, total |-> 1],
                       level3 |-> [correct |-> 0, total |-> 1]]

\* more spellings than targets: the one graded spelling is right up to
\* case and padding, the rest is ignored
C5_Witness ==
    /\ fn = "evaluate_phonetics"
    /\ Len(answers) > Len(targets)
    /\ result.total = 1
    /\ result.score = 1
    /\ answers[1] # targets[1]

---------------------------------------------------------------------------
(* C6: in evaluate_phonetics each graded item is counted in exactly one    *)
(* tier: int(level_list[i]) when the entry exists, parses as an integer    *)
(* and lies in {1,2,3}, tier 1 otherwise (missing, unparsable, out of      *)
(* range); no such entry raises.                                           *)

\* what Python's int makes of each level entry of the model: '1' -> 1,
\* '2' -> 2, ' 3' -> 3, '4' -> 4, '3' -> 3; 'x' raises ValueError
C6_IntOf(x) ==
    CASE x = <<"1">> -> 1
      [] x = <<"2">> -> 2
      [] x = <<" ", "3">> -> 3
      [] x = <<"3">> -> 3
      [] x = <<"4">> -> 4
      [] OTHER -> 0

C6_Tier(k) ==
    IF k <= Len(levels) /\ C6_IntOf(levels[k]) \in {1, 2, 3}
    THEN C6_IntOf(levels[k])
    ELSE 1

C6_TierCount(t) == Cardinality({k \in 1..C5_N : C6_Tier(k) = t})

C6_TierRight(t) ==
    Cardinality({k \in 1..C5_N :
        C6_Tier(k) = t /\ Canonical(answers[k]) = Canonical(targets[k])})

C6_OneTierPerItem ==
    fn = "evaluate_phonetics" =>
        /\ result.type = "Phonetics"
        /\ result.level_breakdown.level1.total = C6_TierCount(1)
        /\ result.level_breakdown.level2.total = C6_TierCount(2)
        /\ result.level_breakdown.level3.total = C6_TierCount(3)
        /\ result.level_breakdown.level1.correct = C6_TierRight(1)
        /\ result.level_breakdown.level2.correct = C6_TierRight(2)
        /\ result.level_breakdown.level3.correct = C6_TierRight(3)
        /\ result.level_breakdown.level1.total
               + result.level_breakdown.level2.total
               + result.level_breakdown.level3.total = result.total

\* two graded items, the first with an out-of-range level and the second
\* with none: both fall in tier 1
C6_Witness ==
    /\ fn = "evaluate_phonetics"
    /\ result.total = 2
    /\ levels = << <<"4">> >>
    /\ result.level_breakdown.level1.total = 2

---------------------------------------------------------------------------
(* C7: evaluate_dyscalculia counts, over every i < len(targets), the       *)
(* positions where the trimmed, lowercased answers[i] ('' when out of      *)
(* range) equals the trimmed, lowercased targets[i]; flag = (score < 3)    *)
(* whatever len(targets) is, so fewer than 3 targets are always flagged:   *)
(* (['cat','dog'], ['cat','dog']) gives score 2, flag true.                *)
C7_DyscalculiaContract ==
    fn = "evaluate_dyscalculia" =>
        /\ result.score =
               Cardinality({k \in 1..Len(targets) :
                   Canonical(EntryAt(answers, k)) = Canonical(targets[k])})
        /\ result.flag = (result.score < 3)
        /\ Len(targets) < 3 => result.flag = TRUE
        /\ answers = <<cat, dog>> /\ targets = <<cat, dog>> =>
               result.score = 2 /\ result.flag = TRUE

\* three targets all answered right: the only way not to be flagged
C7_Witness ==
    /\ fn = "evaluate_dyscalculia"
    /\ Len(targets) = 3
    /\ result.score = 3
    /\ result.flag = FALSE

---------------------------------------------------------------------------
(* C8: evaluate_dyslexia compares position by position against the key    *)
(* [b, b, a, a, b] with case-sensitive, untrimmed equality, ignores        *)
(* answers beyond the fifth and treats absent positions as non-matching;   *)
(* flag is true exactly when score < 3; the message is 'Possible signs of  *)
(* dyslexia' when flagged and 'No major signs detected.' otherwise; the    *)
(* full key gives score 5, flag false.                                     *)
C8_Key == << <<"b">>, <<"b">>, <<"a">>, <<"a">>, <<"b">> >>

C8_DyslexiaContract ==
    fn = "evaluate_dyslexia" =>
        /\ result.score =
               Cardinality({k \in 1..5 : k <= Len(answers) /\ answers[k] = C8_Key[k]})
        /\ result.flag = (result.score < 3)
        /\ result.message = IF result.flag THEN "Possible signs of dyslexia"
                            ELSE "No major signs detected."
        /\ answers = C8_Key => result.score = 5 /\ result.flag = FALSE

\* six answers: the first differs from the key by case and padding only and
\* is not counted, the sixth is beyond the key
C8_Witness ==
    /\ fn = "evaluate_dyslexia"
    /\ Len(answers) = 6
    /\ answers[1] = <<" ", "B">>
    /\ result.score = 4
    /\ result.flag = FALSE

---------------------------------------------------------------------------
(* C9: evaluate_phonetics_legacy_mcq compares up to 5 answers against the  *)
(* key [c, b, a, a, b] after trimming and lowercasing, missing or short    *)
(* answers failing to match; total = 5 and flag = (score < 3) always, and  *)
(* the message is the same string for every input.                         *)
C9_Key == << <<"c">>, <<"b">>, <<"a">>, <<"a">>, <<"b">> >>

C9_LegacyContract ==
    fn = "evaluate_phonetics_legacy_mcq" =>
        /\ result.score =
               Cardinality({k \in 1..5 :
                   /\ k <= Len(answers)
                   /\ answers[k] # None
                   /\ Folded(Trimmed(answers[k])) = C9_Key[k]})
        /\ result.total = 5
        /\ result.flag = (result.score < 3)
        /\ result.message =
               "Legacy phonetic items scored. For the new phonetic spelling, responses are typed words with increasing complexity across three levels."

\* three answers, the second right up to case and padding: not flagged
C9_Witness ==
    /\ fn = "evaluate_phonetics_legacy_mcq"
    /\ Len(answers) = 3
    /\ answers[2] = <<" ", "B">>
    /\ result.score = 3
    /\ result.flag = FALSE

---------------------------------------------------------------------------
(* C10: in every exact-match evaluator (evaluate_dyslexia,                 *)
(* evaluate_dyscalculia, evaluate_phonetics,                               *)
(* evaluate_phonetics_legacy_mcq) an answer that differs from the expected *)
(* key or target only by letter case or by leading/trailing whitespace is  *)
(* counted as a match.                                                     *)

\* the key or target the answer at position k is compared with
C10_Expected(k) ==
    CASE fn = "evaluate_dyslexia" -> C8_Key[k]
      [] fn = "evaluate_phonetics_legacy_mcq" -> C9_Key[k]
      [] OTHER -> targets[k]

\* the answer at k is there and is the expected text up to case and padding
C10_SameUpToCaseAndPadding(k) ==
    /\ k <= Len(answers)
    /\ answers[k] # None
    /\ Folded(Trimmed(answers[k])) = Folded(Trimmed(C10_Expected(k)))

C10_Counted ==
    /\ \A k \in Graded : C10_SameUpToCaseAndPadding(k) => C3_CodeMatches(k)
    /\ result.score >= Cardinality({k \in Graded : C10_SameUpToCaseAndPadding(k)})

\* the claim as made, evaluate_dyslexia included
C10_Original ==
    fn \in {"evaluate_dyslexia", "evaluate_dyscalculia", "evaluate_phonetics",
            "evaluate_phonetics_legacy_mcq"} => C10_Counted

\* the claim for the three evaluators that normalise
C10_NormalisingEvaluators ==
    fn \in {"evaluate_dyscalculia", "evaluate_phonetics",
            "evaluate_phonetics_legacy_mcq"} => C10_Counted

\* ' aB' answered for the target 'Ab ' and counted
C10_Witness ==
    /\ fn = "evaluate_dyscalculia"
    /\ Len(targets) = 1
    /\ answers = << <<" ", "a", "B">> >>
    /\ targets = << <<"A", "b", " ">> >>
    /\ result.score = 1

---------------------------------------------------------------------------
(* C11: there are strings, such as 'aab' against 'aba', on which the       *)
(* greedy two-pointer _edits_leq_one returns a different result than a     *)
(* textbook dynamic-programming check of Levenshtein distance <= 1.        *)

Min3(x, y, z) == Min(x, Min(y, z))

\* the row of the Wagner-Fischer table for the character c of s, from the
\* row before it; row[k] is column k - 1
RECURSIVE LevFill(_, _, _, _)
LevFill(prev, c, t, row) ==
    IF Len(row) = Len(t) + 1 THEN row
    ELSE LET col == Len(row)
         IN  LevFill(prev, c, t,
                 Append(row, Min3(prev[col + 1] + 1,
                                  row[col] + 1,
                                  prev[col] + (IF c = t[col] THEN 0 ELSE 1))))

RECURSIVE LevRows(_, _, _, _)
LevRows(s, t, r, prev) ==
    IF r > Len(s) THEN prev[Len(t) + 1]
    ELSE LevRows(s, t, r + 1, LevFill(prev, s[r], t, <<prev[1] + 1>>))

\* the Levenshtein distance of s and t by dynamic programming
Levenshtein(s, t) == LevRows(s, t, 1, [k \in 1..Len(t) + 1 |-> k - 1])

aab == <<"a", "a", "b">>

aba == <<"a", "b", "a">>

\* the claim's example: the two checks differ on 'aab' against 'aba'
C11_DivergesOnAabAba ==
    pc = "done" /\ arg_a = aab /\ arg_b = aba =>
        (ret = "True") # (Levenshtein(Canonical(arg_a), Canonical(arg_b)) <= 1)

\* as amended: the two checks agree on every pair of strings
C11_AgreesWithDynamicProgramming ==
    pc = "done" =>
        (ret = "True") = (Levenshtein(Canonical(arg_a), Canonical(arg_b)) <= 1)

\* 'aab' against 'aba': two substitutions, refused by the greedy scan at its
\* second mismatch and at distance 2 in the table
C11_Witness ==
    /\ pc = "done"
    /\ arg_a = aab /\ arg_b = aba
    /\ ret = "False" /\ ret_line = 60
    /\ Levenshtein(aab, aba) = 2

---------------------------------------------------------------------------
(* C12: no evaluator raises for lists of strings of any lengths: answer    *)
(* lists shorter or longer than the targets or key, empty lists, None in   *)
(* place of a list for the guarded parameters, and None or empty entries   *)
(* all yield a result record in which the affected positions do not match. *)

\* the lists as the guards of the code read them
C12_Answers == or_list(answers)

C12_Targets == or_list(targets)

C12_Graded ==
    CASE fn = "evaluate_dyslexia" -> 1..Min(Len(C12_Answers), 5)
      [] fn = "evaluate_phonetics_legacy_mcq" -> 1..Min(Len(C12_Answers), 5)
      [] fn = "evaluate_dyscalculia" -> 1..Len(C12_Targets)
      [] fn = "evaluate_memory" -> 1..Len(C12_Targets)
      [] fn = "evaluate_phonetics" -> 1..Min(Len(C12_Targets), Len(C12_Answers))
      [] OTHER -> {}

C12_CodeMatches(k) ==
    CASE fn = "evaluate_dyslexia" -> dyslexia_match(C12_Answers[k], dyslexia_key[k])
      [] fn = "evaluate_phonetics_legacy_mcq" ->
             legacy_match(C12_Answers[k], correct_key[k])
      [] fn = "evaluate_dyscalculia" -> dyscalculia_match(C12_Answers, C12_Targets, k)
      [] fn = "evaluate_memory" -> memory_match(C12_Answers, C12_Targets, k)
      [] fn = "evaluate_phonetics" -> phonetics_match(C12_Answers, C12_Targets, k)

\* evaluate_dyslexia's answers is the one list parameter with no guard
C12_InScope == Called /\ ~(fn = "evaluate_dyslexia" /\ answers = NoneList)

C12_NoRaiseAndNoMatch ==
    C12_InScope =>
        /\ result.type \in {"Dyslexia", "Dyscalculia", "Working Memory", "Phonetics"}
        /\ \A k \in C12_Graded :
               Unanswered(C12_Answers, k) => ~C12_CodeMatches(k)

\* the part of the claim the code keeps: a record is returned
C12_NoRaise ==
    C12_InScope =>
        result.type \in {"Dyslexia", "Dyscalculia", "Working Memory", "Phonetics"}

---------------------------------------------------------------------------
(* C14: in evaluate_dyscalculia, evaluate_memory and evaluate_phonetics    *)
(* the flag depends only on score and total: the same permutation applied  *)
(* to the aligned answer, target and level lists leaves score, total and   *)
(* flag unchanged.                                                         *)

Permutations(n) ==
    {p \in [1..n -> 1..n] : \A x, y \in 1..n : p[x] = p[y] => x = y}

Permuted(list, p) == [k \in 1..Len(list) |-> list[p[k]]]

C14_Aligned ==
    /\ Len(answers) = Len(targets)
    /\ fn = "evaluate_phonetics" => Len(levels) = Len(targets)

C14_Rerun(p) ==
    CASE fn = "evaluate_dyscalculia" ->
             evaluate_dyscalculia(Permuted(answers, p), Permuted(targets, p))
      [] fn = "evaluate_memory" ->
             evaluate_memory(Permuted(answers, p), Permuted(targets, p))
      [] fn = "evaluate_phonetics" ->
             evaluate_phonetics(Permuted(answers, p), Permuted(targets, p),
                                Permuted(levels, p))

\* the total of a record; evaluate_dyscalculia returns none and grades
\* len(targets) positions
C14_TotalOf(r, tg) == IF fn = "evaluate_dyscalculia" THEN Len(tg) ELSE r.total

C14_FlagOf(score, total) ==
    IF fn = "evaluate_dyscalculia" THEN score < 3 ELSE score < total \div 2

C14_PermutationLeavesRecord ==
    fn \in {"evaluate_dyscalculia", "evaluate_memory", "evaluate_phonetics"}
        /\ C14_Aligned =>
        /\ result.flag = C14_FlagOf(result.score, C14_TotalOf(result, targets))
        /\ \A p \in Permutations(Len(targets)) :
               LET r == C14_Rerun(p)
               IN  /\ r.score = result.score
                   /\ r.flag = result.flag
                   /\ C14_TotalOf(r, Permuted(targets, p))
                          = C14_TotalOf(result, targets)

\* three aligned items of which one is right, the lists not constant
C14_Witness ==
    /\ fn = "evaluate_dyscalculia"
    /\ Len(answers) = 3 /\ Len(targets) = 3
    /\ result.score = 1
    /\ answers[1] # answers[3]
    /\ targets[1] # targets[3]

---------------------------------------------------------------------------
\* C13: two invocations of an evaluator on identical inputs return
\* identical records, whichever thread runs them, whatever the thread ran
\* before and whatever runs beside them.
C13_Finished(t) == frames[t].pc = "done"

C13_SameInputs(t, u) == lists[t].given = lists[u].given

\* C13: finished invocations on identical inputs hold identical records
C13_IdenticalInputsIdenticalRecords ==
    \A t \in Threads : \A u \in Threads :
        (C13_Finished(t) /\ C13_Finished(u) /\ C13_SameInputs(t, u))
            => frames[t].result = frames[u].result

\* two finished invocations of the same call with a non-zero score, one on
\* a fresh thread and one on a thread that returned from an earlier call
C13_Witness ==
    /\ C13_Finished(1) /\ C13_Finished(2)
    /\ C13_SameInputs(1, 2)
    /\ ~frames[1].returned /\ frames[2].returned
    /\ frames[1].result.score > 0
    /\ frames[1].result = frames[2].result

---------------------------------------------------------------------------
\* C15: with the invocations' steps interleaved in any way, each returns
\* the record the evaluator returns for its inputs when run alone, and the
\* lists passed to it are as they were passed.
C15_Alone(c) ==
    CASE c.fn = "evaluate_dyslexia" -> evaluate_dyslexia(c.answers)
      [] c.fn = "evaluate_dyscalculia" -> evaluate_dyscalculia(c.answers, c.targets)
      [] c.fn = "evaluate_memory" -> evaluate_memory(c.answers, c.targets)
      [] c.fn = "evaluate_phonetics" -> evaluate_phonetics(c.answers, c.targets, c.levels)
      [] c.fn = "evaluate_phonetics_legacy_mcq" -> evaluate_phonetics_legacy_mcq(c.answers)

C15_ListsAsPassed(t) ==
    /\ lists[t].answers = lists[t].given.answers
    /\ lists[t].targets = lists[t].given.targets
    /\ lists[t].levels = lists[t].given.levels

\* C15: a finished invocation holds the record of the evaluator run alone,
\* and a running or finished one has its lists as they were passed
C15_InterleavedAsAlone ==
    \A t \in Threads :
        /\ frames[t].pc = "done" => frames[t].result = C15_Alone(lists[t].given)
        /\ frames[t].pc # "idle" => C15_ListsAsPassed(t)

\* one invocation has returned a non-zero score while another, of another
\* evaluator, is in the middle of its loop with matches already counted
C15_Witness ==
    /\ frames[2].pc = "done"
    /\ frames[2].result.score > 0
    /\ frames[2].result = C15_Alone(lists[2].given)
    /\ frames[1].pc = "loop"
    /\ frames[1].k > 1 /\ frames[1].k <= frames[1].n
    /\ frames[1].score > 0
    /\ frames[1].fn # frames[2].fn
    /\ C15_ListsAsPassed(1) /\ C15_ListsAsPassed(2)

---------------------------------------------------------------------------
(* The web application's claims.  A step of the application is told by the *)
(* request it leaves in request'; the unprimed variables are the database  *)
(* and the session the request found.                                      *)

\* the session holds the id of an existing counselor, admin or superuser
Privileged ==
    \E u \in users : u.id = session /\ u.role \in {"counselor", "admin", "superuser"}

\* the decimal numeral of a row id
Numeral(n) == <<Digits[n + 1]>>

\* the submitted text of a form field; a missing field reads as empty
Submitted(form, field) == TextOf(form[field])

---------------------------------------------------------------------------
\* C16: a request to a counselor_required route runs the handler only for
\* a session user that exists and is counselor, admin or superuser; without
\* a session user it is redirected to login with 'Please log in to access
\* this page.'; any other logged-in user is redirected with 'Access
\* denied. Counselor or Admin privileges required.' and the programs and
\* assessments stay as they were.
C16_Routes ==
    {"counselor_dashboard", "add_program", "delete_program",
     "add_assessment", "delete_assessment"}

C16_LoginMessage == "Please log in to access this page."

C16_DeniedMessage == "Access denied. Counselor or Admin privileges required."

C16_HandlerRan == response.flash \notin {C16_LoginMessage, C16_DeniedMessage}

C16_Gate ==
    request'.route \in C16_Routes =>
        /\ C16_HandlerRan' => Privileged
        /\ session = no_user_id =>
               /\ response'.status = 302
               /\ response'.redirect = "login"
               /\ response'.flash = C16_LoginMessage
        /\ (session # no_user_id /\ ~Privileged) =>
               /\ response'.status = 302
               /\ response'.flash = C16_DeniedMessage
               /\ remedials' = remedials
               /\ tests' = tests

\* C16: every step of a protected route is gated so
C16_CounselorRequiredGate == [][C16_Gate]_vars

\* a student, logged in, has posted a program for an existing assessment
\* and was denied
C16_Witness ==
    /\ request.route = "add_program"
    /\ \E u \in users : u.id = session /\ u.role = "student"
    /\ \E t \in tests : Trimmed(Submitted(request.form, "test_id")) = Numeral(t.id)
    /\ Submitted(request.form, "name") # <<>>
    /\ response.flash = C16_DeniedMessage
    /\ remedials = {}

---------------------------------------------------------------------------
\* C17: delete_assessment(id) by a counselor removes the assessment only
\* when it exists and no program references it; when a program references
\* it, or no assessment has the id, assessments and programs stay as they
\* were and the response redirects to the counselor dashboard.
C17_Exists(id) == \E t \in tests : t.id = id

C17_Referenced(id) == \E r \in remedials : r.test_id = id

C17_Step ==
    (request'.route = "delete_assessment" /\ Privileged) =>
        LET id == request'.id
        IN  /\ tests' # tests =>
                /\ C17_Exists(id) /\ ~C17_Referenced(id)
                /\ tests' = {t \in tests : t.id # id}
            /\ (C17_Referenced(id) \/ ~C17_Exists(id)) =>
                /\ tests' = tests
                /\ remedials' = remedials
                /\ response'.status = 302
                /\ response'.redirect = "counselor_dashboard"

\* C17: every delete_assessment step of a counselor is guarded so
C17_DeleteAssessmentGuarded == [][C17_Step]_vars

\* a counselor asked to delete an assessment that a program references,
\* and both are still there
C17_Witness ==
    /\ request.route = "delete_assessment"
    /\ Privileged
    /\ C17_Exists(request.id)
    /\ C17_Referenced(request.id)
    /\ response.redirect = "counselor_dashboard"
    /\ response.flash = "Cannot delete assessment with associated programs. Delete programs first."

---------------------------------------------------------------------------
\* C18: add_program by a counselor adds exactly one program when name,
\* description and test_id are non-empty after trimming and test_id names
\* an existing assessment, and otherwise leaves the programs as they were.
\* The program added has the trimmed name, the trimmed description and the
\* id that test_id names.
C18_Valid(form) ==
    /\ Trimmed(Submitted(form, "name")) # <<>>
    /\ Trimmed(Submitted(form, "description")) # <<>>
    /\ \E t \in tests : Trimmed(Submitted(form, "test_id")) = Numeral(t.id)

\* exactly one program was added: one of the given name and description,
\* for the assessment that the form's test_id names
C18_AddsOne(form, name, description) ==
    \E p \in remedials' :
        /\ p \notin remedials
        /\ remedials' = remedials \cup {p}
        /\ p.name = name
        /\ p.description = description
        /\ Trimmed(Submitted(form, "test_id")) = Numeral(p.test_id)

C18_SubmittedName(form) == Submitted(form, "name")

C18_SubmittedDescription(form) == Submitted(form, "description")

C18_TrimmedName(form) == Trimmed(Submitted(form, "name"))

C18_TrimmedDescription(form) == Trimmed(Submitted(form, "description"))

C18_Step(name, description) ==
    (request'.route = "add_program" /\ Privileged) =>
        IF C18_Valid(request'.form)
        THEN C18_AddsOne(request'.form, name, description)
        ELSE remedials' = remedials

\* C18 as claimed: the program added has the name and description as
\* submitted
C18_AddsSubmittedFields ==
    [][C18_Step(C18_SubmittedName(request'.form),
               C18_SubmittedDescription(request'.form))]_vars

\* C18 as the code has it: the program added has the name and description
\* trimmed
C18_AddsTrimmedFields ==
    [][C18_Step(C18_TrimmedName(request'.form),
               C18_TrimmedDescription(request'.form))]_vars

\* a counselor posted a padded name for an existing assessment, and the
\* program is stored under the trimmed name
C18_Witness ==
    /\ request.route = "add_program"
    /\ Privileged
    /\ response.flash = "Program added successfully!"
    /\ C18_SubmittedName(request.form) # C18_TrimmedName(request.form)
    /\ \E p \in remedials :
           /\ p.name = C18_TrimmedName(request.form)
           /\ \E t \in tests : t.id = p.test_id

---------------------------------------------------------------------------
\* C19: add_assessment by a counselor adds no assessment when name or
\* description is empty; every assessment it adds has difficulty_level in
\* {easy, medium, hard}; a difficulty that is outside that set is stored
\* as medium.
C19_Levels == {easy, medium, hard}

C19_Added == tests' \ tests

C19_Step(difficulty) ==
    (request'.route = "add_assessment" /\ Privileged) =>
        LET form == request'.form
        IN  /\ (Submitted(form, "name") = <<>> \/ Submitted(form, "description") = <<>>)
                => tests' = tests
            /\ \A t \in C19_Added : t.difficulty_level \in C19_Levels
            /\ (form["difficulty_level"] # None /\ difficulty \notin C19_Levels)
                => \A t \in C19_Added : t.difficulty_level = medium

C19_SubmittedDifficulty(form) == Submitted(form, "difficulty_level")

C19_TrimmedDifficulty(form) == Trimmed(Submitted(form, "difficulty_level"))

\* C19 as claimed: a difficulty that as submitted is outside the set is
\* stored as medium
C19_SubmittedOutsideIsMedium == [][C19_Step(C19_SubmittedDifficulty(request'.form))]_vars

\* C19 as the code has it: a difficulty that after trimming is outside the
\* set is stored as medium
C19_TrimmedOutsideIsMedium == [][C19_Step(C19_TrimmedDifficulty(request'.form))]_vars

\* a counselor posted an assessment with a difficulty outside the set, and
\* it is stored as medium
C19_Witness ==
    /\ request.route = "add_assessment"
    /\ Privileged
    /\ response.flash = "Assessment added successfully!"
    /\ request.form["difficulty_level"] # None
    /\ C19_TrimmedDifficulty(request.form) \notin C19_Levels
    /\ \E t \in tests :
           /\ t.name = Trimmed(Submitted(request.form, "name"))
           /\ t.difficulty_level = medium

---------------------------------------------------------------------------
\* C20: after delete_program(id) by a counselor the programs are the
\* previous ones without the program of that id, the assessments are as
\* they were, and the response redirects to the counselor dashboard
\* whether or not a program had the id.
C20_Step ==
    (request'.route = "delete_program" /\ Privileged) =>
        /\ remedials' = {r \in remedials : r.id # request'.id}
        /\ tests' = tests
        /\ response'.status = 302
        /\ response'.redirect = "counselor_dashboard"

\* C20: every delete_program step of a counselor changes just that
C20_DeleteProgramFrame == [][C20_Step]_vars

\* a counselor deleted one of two programs: the other one is still there
C20_Witness ==
    /\ request.route = "delete_program"
    /\ Privileged
    /\ response.flash = "Program deleted successfully!"
    /\ response.redirect = "counselor_dashboard"
    /\ \A r \in remedials : r.id # request.id
    /\ remedials # {}
    /\ tests # {}

---------------------------------------------------------------------------
\* C30: when the two-pointer loop of _edits_leq_one exits without the
\* early return, either one mismatch was consumed and both pointers are at
\* the end of their strings, or none was consumed and one string has at
\* most one character left while the other has none; so the return of
\* line 76 is never False, and every False comes from line 49 or line 60.
C30_LeftInA == Len(a) - i

C30_LeftInB == Len(b) - j

C30_LoopExited == pc = "loop" /\ ~(i < Len(a) /\ j < Len(b))

C30_LoopExitWithinBudget ==
    /\ C30_LoopExited =>
           \/ diff = 1 /\ C30_LeftInA = 0 /\ C30_LeftInB = 0
           \/ diff = 0 /\ C30_LeftInA + C30_LeftInB <= 1
    /\ (pc = "done" /\ ret_line = 76) => (ret = "True" /\ diff <= 1)
    /\ (pc = "done" /\ ret = "False") => ret_line \in {49, 60}

\* the loop consumed one mismatch between strings of different lengths,
\* ran both pointers to the end, and line 76 returned True
C30_Witness ==
    /\ pc = "done"
    /\ ret_line = 76
    /\ ret = "True"
    /\ diff = 1
    /\ Len(a) # Len(b)
    /\ C30_LeftInA = 0 /\ C30_LeftInB = 0

---------------------------------------------------------------------------
\* C29: in the record evaluate_phonetics returns, every tier of
\* level_breakdown has 0 <= correct <= total, the three totals sum to the
\* returned total and the three correct counts sum to the returned score.
C29_Tiers ==
    {result.level_breakdown.level1, result.level_breakdown.level2,
     result.level_breakdown.level3}

C29_BreakdownAddsUp ==
    fn = "evaluate_phonetics" =>
        /\ \A t \in C29_Tiers : 0 <= t.correct /\ t.correct <= t.total
        /\ result.level_breakdown.level1.total
               + result.level_breakdown.level2.total
               + result.level_breakdown.level3.total = result.total
        /\ result.level_breakdown.level1.correct
               + result.level_breakdown.level2.correct
               + result.level_breakdown.level3.correct = result.score

\* two items in two different tiers, one spelled right and one wrong
C29_Witness ==
    /\ fn = "evaluate_phonetics"
    /\ result.total = 2
    /\ result.score = 1
    /\ result.level_breakdown.level1.total = 1
    /\ result.level_breakdown.level2.total + result.level_breakdown.level3.total = 1
    /\ \E t \in C29_Tiers : t.correct = 1 /\ t.total = 1
    /\ \E t \in C29_Tiers : t.correct = 0 /\ t.total = 1

---------------------------------------------------------------------------
\* C24: with the requests handled one after the other, every stored
\* program's test_id is the id of an assessment that is stored.
C24_ProgramsReferToAssessments ==
    \A r \in remedials : \E t \in tests : t.id = r.test_id

\* a counselor deleted an assessment while a program of another assessment
\* is stored
C24_Witness ==
    /\ request.route = "delete_assessment"
    /\ response.flash = "Assessment deleted successfully!"
    /\ remedials # {}
    /\ \A t \in tests : t.id # request.id
    /\ C24_ProgramsReferToAssessments

---------------------------------------------------------------------------
\* C21: after any signups and logins, a login with the hardcoded counselor
\* credentials creates the counselor account when no user has the email,
\* stores that user's id in the session, and its redirect ends on the
\* counselor dashboard, not on an access-denied page.
C21_SubmittedEmails ==
    { <<"c", "o", "u", "n", "s", "e", "l", "o", "r", "@", "l", "d", "d", "e", "t", "e", "c", "t", "o", "r", ".", "c", "o", "m">>,
      <<" ", "C", "o", "u", "n", "s", "e", "l", "o", "r", "@", "L", "D", "D", "e", "t", "e", "c", "t", "o", "r", ".", "c", "o", "m">> }

\* the request handled last is a login with the hardcoded credentials
C21_HardcodedLogin ==
    /\ request.route = "login"
    /\ request.form["email"] \in C21_SubmittedEmails
    /\ request.form["password"] = <<"c", "o", "u", "n", "s", "e", "l", "o", "r", "1", "2", "3">>

\* the account is there and the session holds its id
C21_AccountAndSession ==
    C21_HardcodedLogin =>
        /\ response.redirect = "counselor_dashboard"
        /\ \E u \in users : u.email = <<"c", "o", "u", "n", "s", "e", "l", "o", "r", "@", "l", "d", "d", "e", "t", "e", "c", "t", "o", "r", ".", "c", "o", "m">> /\ u.id = session

\* the browser following the redirect of the login gets the dashboard
C21_Followed ==
    (C21_HardcodedLogin /\ request'.route = "counselor_dashboard") =>
        /\ response'.template = "counselor_dashboard.html"
        /\ response'.flash # "Access denied. Counselor or Admin privileges required."

\* C21: every hardcoded counselor login leaves the account and the session,
\* and the page its redirect leads to is the counselor dashboard
C21_HardcodedLoginReachesDashboard ==
    [](C21_AccountAndSession) /\ [][C21_Followed]_vars

---------------------------------------------------------------------------
(* The claims on the test routes.  The submitter of a request is the user  *)
(* of the session the request found.                                       *)

TestRoutes ==
    {"test_comprehension", "test_dyslexia", "test_dyscalculia", "test_memory",
     "test_phonetics"}

HasSubmitter == \E u \in users : u.id = session

Submitter == CHOOSE u \in users : u.id = session

(* C23: no test route saves a result for a request whose session user has  *)
(* not completed get-to-know-you: the request is redirected to the landing *)
(* page and the result table stays as it is, a step that adds a result is  *)
(* a step of a submitter who has completed it, and the completed flag of a *)
(* user is never cleared.                                                  *)
C23_Unprepared == HasSubmitter /\ ~Submitter.completed_get_to_know_you

C23_TurnedAway ==
    (request'.route \in TestRoutes /\ C23_Unprepared)
        => (results' = results /\ response'.redirect = "landing")

C23_SavedAfterCompletion ==
    (results' # results)
        => (HasSubmitter /\ Submitter.completed_get_to_know_you)

C23_FlagKept ==
    \A u \in users :
        u.completed_get_to_know_you
            => \E v \in users' : v.id = u.id /\ v.completed_get_to_know_you

C23_ResultsOnlyAfterGetToKnowYou ==
    [][C23_TurnedAway /\ C23_SavedAfterCompletion /\ C23_FlagKept]_vars

\* a test submission of a user who has not completed the step was turned
\* away, and a user who has completed it has a result saved
C23_Witness ==
    /\ request.route \in TestRoutes
    /\ request.method = "POST"
    /\ C23_Unprepared
    /\ response.redirect = "landing"
    /\ results # {}
    /\ \E u \in users : u.completed_get_to_know_you

(* C22: a user whose role is not admin, superuser or counselor is shown    *)
(* /results or /programs only when result rows stored under the user's     *)
(* email cover comprehension, memory and phonetics, and is redirected to   *)
(* the assessments page in every other state; staff roles are shown the    *)
(* page whatever the rows are.                                             *)
C22_ComprehensionLabels ==
    {<<"C", "o", "m", "p", "r", "e", "h", "e", "n", "s", "i", "o", "n", " ", "(", "E", "a", "s", "y", ")">>,
     <<"C", "o", "m", "p", "r", "e", "h", "e", "n", "s", "i", "o", "n", " ", "(", "M", "e", "d", "i", "u", "m", ")">>,
     <<"C", "o", "m", "p", "r", "e", "h", "e", "n", "s", "i", "o", "n", " ", "(", "H", "a", "r", "d", ")">>}

C22_MemoryLabels ==
    {<<"W", "o", "r", "k", "i", "n", "g", " ", "M", "e", "m", "o", "r", "y", " ", "(", "M", "e", "d", "i", "u", "m", ")">>}

C22_PhoneticsLabels ==
    {<<"D", "y", "s", "c", "a", "l", "c", "u", "l", "i", "a", " ", "(", "M", "e", "d", "i", "u", "m", ")">>,
     <<"P", "h", "o", "n", "e", "t", "i", "c", "s", " ", "(", "M", "e", "d", "i", "u", "m", ")">>}

C22_Stored(email, labels) ==
    \E r \in results : r.email = email /\ r.test_type \in labels

C22_Covered(email) ==
    /\ C22_Stored(email, C22_ComprehensionLabels)
    /\ C22_Stored(email, C22_MemoryLabels)
    /\ C22_Stored(email, C22_PhoneticsLabels)

C22_Page == [student_results |-> "results.html", programs |-> "programs.html"]

C22_Step ==
    (request'.route \in DOMAIN C22_Page /\ HasSubmitter)
        => IF Submitter.role \in {"admin", "superuser", "counselor"}
              \/ C22_Covered(Submitter.email)
           THEN response'.template = C22_Page[request'.route]
           ELSE response'.redirect = "assessments" /\ response'.template = "none"

C22_PagesGatedByCoverage == [][C22_Step]_vars

\* a student is shown the programs page
C22_Witness ==
    /\ request.route = "programs"
    /\ response.template = "programs.html"
    /\ HasSubmitter
    /\ Submitter.role = "student"
    /\ C22_Covered(Submitter.email)

(* C25: every result row saved by a test submission is stored under the    *)
(* email of the logged-in user who submitted it, so that no submission     *)
(* adds to the completed base tests of another user.                       *)
C25_Saved == results' \ results

C25_StoredUnderSubmitter ==
    \A r \in C25_Saved : HasSubmitter /\ r.email = Submitter.email

C25_OthersUntouched ==
    \A u \in users :
        (HasSubmitter /\ u.id # Submitter.id)
            => \A r \in C25_Saved : r.email # u.email

C25_ResultsUnderSubmittersEmail ==
    [][C25_StoredUnderSubmitter /\ C25_OthersUntouched]_vars

(* C28: the score saved by a comprehension submission is the number of     *)
(* submitted answers q<id> that equal the answer of the question with that *)
(* id among the questions the preceding GET of the same difficulty         *)
(* displayed; answering every displayed question correctly gives score =   *)
(* total.                                                                  *)
C28_Field(id) ==
    IF id < 10 THEN <<"q", Digits[id + 1]>>
    ELSE <<"q", Digits[(id \div 10) + 1], Digits[(id % 10) + 1]>>

\* the submission follows the page of the same difficulty
C28_FollowsPage ==
    /\ request.route = "test_comprehension"
    /\ request.method = "GET"
    /\ response.template = "test_comprehension.html"
    /\ request'.route = "test_comprehension"
    /\ request'.method = "POST"
    /\ request'.difficulty = request.difficulty

C28_Displayed == response.test_data

C28_Right ==
    {q \in C28_Displayed :
        /\ C28_Field(q.id) \in DOMAIN request'.form
        /\ request'.form[C28_Field(q.id)] = q.answer}

C28_Step ==
    C28_FollowsPage
        => \A r \in results' \ results : r.score = Cardinality(C28_Right)

C28_ScoreCountsDisplayedQuestions == [][C28_Step]_vars

---------------------------------------------------------------------------
(* The claims on the administration routes of the Beta application.        *)

(* C26: reset_password changes a user's password only with a token whose   *)
(* PasswordResetRequest has status 'approved' at that moment; the token of *)
(* a request that is pending, or denied (also when it was approved         *)
(* before), is rejected.                                                   *)
C26_PasswordChanged ==
    \E u \in users :
        \E v \in users' : v.id = u.id /\ v.password_hash # u.password_hash

C26_Approved(token) ==
    \E r \in reset_requests : r.token = token /\ r.status = "approved"

C26_Step ==
    (request'.route = "reset_password" /\ C26_PasswordChanged)
        => C26_Approved(request'.token)

C26_ResetOnlyWhenApproved == [][C26_Step]_vars

(* C27: when an active admin exists and a user who passes                  *)
(* role_required('admin') has admin_update_user_role,                      *)
(* admin_toggle_user_active or admin_delete_user carried out, an active    *)
(* user with role admin exists afterwards.                                 *)
C27_Routes ==
    {"admin_update_user_role", "admin_toggle_user_active", "admin_delete_user"}

C27_ActiveAdmins(rows) == {u \in rows : u.role = "admin" /\ u.active}

C27_ByAdmin == \E u \in C27_ActiveAdmins(users) : u.id = session

C27_Step ==
    (request'.route \in C27_Routes /\ C27_ByAdmin /\ C27_ActiveAdmins(users) # {})
        => C27_ActiveAdmins(users') # {}

C27_ActiveAdminRemains == [][C27_Step]_vars

\* one of two admins has deactivated the other
C27_Witness ==
    /\ request.route = "admin_toggle_user_active"
    /\ response.redirect = "admin_dashboard"
    /\ C27_ByAdmin
    /\ Cardinality(C27_ActiveAdmins(users)) = 1
    /\ \E u \in users : u.role = "admin" /\ ~u.active

====
